---------------------------- MODULE Spec2Model ----------------------------
(***************************************************************************)
(* A model of the llpy16 compiler (ojii/llpy16).                           *)
(*                                                                         *)
(* Two generations of the compiler live in the repository:                 *)
(*   - src/compiler.py: the stack-marshalling compiler (Assembler and      *)
(*     Compiler classes: while loops, functions, returns, builtins);       *)
(*   - src/llpy16/: the Context based compiler (Context, Assembler,        *)
(*     Compiler: imports with native extensions, deferred functions).      *)
(* Spec models the first, SpecCtx the second.                              *)
(*                                                                         *)
(* The compiler is a depth-first walk of a syntax tree.  The tree is the   *)
(* input: each action feeds the walker the next node of the traversal, a   *)
(* compound node (while, def, import) as an Enter step that runs the       *)
(* handler up to its body and an Exit step that runs the rest of it.       *)
(***************************************************************************)
EXTENDS Integers, Sequences, FiniteSets, TLC

----------------------------------------------------------------------------
(* Bounds of the explored inputs.                                          *)

\* statements fed to one compilation (an Enter step counts, an Exit does not)
MaxStmts == 4
\* compound statements open at once (while in def in import ...)
MaxDepth == 2

----------------------------------------------------------------------------
(* Text.  A Python string is a sequence of tokens; "_" and "." are tokens  *)
(* of their own so that joining and splitting are modelled by what they do.*)

US == "_"

Digits == <<"0", "1", "2", "3", "4", "5", "6", "7", "8", "9">>

RECURSIVE Str(_)
\* str(n) / '%s' % n of a non-negative int: its decimal digits
Str(n) == IF n < 10 THEN <<Digits[n + 1]>>
          ELSE Str(n \div 10) \o <<Digits[(n % 10) + 1]>>

HexDigits == <<"0", "1", "2", "3", "4", "5", "6", "7", "8", "9",
              "a", "b", "c", "d", "e", "f">>

\* '0x%04x' % n for n < 16^4
Hex4(n) == <<"0x", HexDigits[((n \div 4096) % 16) + 1], HexDigits[((n \div 256) % 16) + 1],
             HexDigits[((n \div 16) % 16) + 1], HexDigits[(n % 16) + 1]>>

RECURSIVE JoinText(_, _)
\* sep.join(bits) for a sequence of texts and a text sep
JoinText(sep, bits) ==
    IF Len(bits) = 0 THEN <<>>
    ELSE IF Len(bits) = 1 THEN bits[1]
    ELSE bits[1] \o sep \o JoinText(sep, Tail(bits))

\* sep.join(bits) for a one-character sep
Join(sep, bits) == JoinText(<<sep>>, bits)

\* name.startswith('builtin_')
StartsWithBuiltin(name) ==
    Len(name) >= 2 /\ name[1] = "builtin" /\ name[2] = US

\* an identifier without underscore
Id(s) == <<s>>
\* 'builtin_' + s
Builtin(s) == <<"builtin", US, s>>

----------------------------------------------------------------------------
(* Syntax tree nodes (the ast module's classes; the parser is external).   *)

Num(n) == [t |-> "Num", n |-> n, id |-> <<>>, path |-> <<>>]
Name(id) == [t |-> "Name", n |-> 0, id |-> id, path |-> <<>>]
\* a.b.c is Attr(<<a, b>>, c)
Attr(path, id) == [t |-> "Attribute", n |-> 0, id |-> id, path |-> path]
\* any other expression node (a string, a binary operation, ...)
Other == [t |-> "Other", n |-> 0, id |-> <<>>, path |-> <<>>]

----------------------------------------------------------------------------
(* src/compiler.py: Assembler                                              *)

REGISTERS == <<Id("A"), Id("B"), Id("C"), Id("X"), Id("Y"), Id("Z"), Id("I"), Id("J")>>

Range(s) == {s[i] : i \in DOMAIN s}

\* list.index(x): the first position of x, 0-based
Index(s, x) == (CHOOSE i \in DOMAIN s : s[i] = x /\ \A j \in 1..(i - 1) : s[j] # x) - 1

\* a line of a segment: '%s %s' % (instruction, ', '.join(map(str, args)))
Ins(op, args) == [op |-> op, args |-> args]
\* ':%s' % label
LabelLine(text) == [op |-> ":", args |-> <<text>>]

PC == Id("PC")
POP == Id("POP")
PUSH == Id("PUSH")

\* self._current.append(line)
Emit(a, line) ==
    IF a.current = "body" THEN [a EXCEPT !.body = Append(@, line)]
    ELSE [a EXCEPT !.footer = Append(@, line)]

write_instruction(a, op, args) == Emit(a, Ins(op, args))

write_label(a, label) ==
    Emit(a, LabelLine(Join(US, a.current_namespace \o <<label>>)))

goto_label(a, label) == write_instruction(a, "SET", <<PC, label>>)

pop_stack(a, into) == write_instruction(a, "SET", <<into, POP>>)

push_stack(a, value) == write_instruction(a, "SET", <<PUSH, value>>)

\* The _names tree: a function from the key path of a node to the node,
\* a dict (a namespace) or an int (a variable).
Dict == [isdict |-> TRUE, v |-> 0]
IntVal(n) == [isdict |-> FALSE, v |-> n]

\* str(value) of a node of the tree
StrVal(node) == IF node.isdict THEN <<"{...}">> ELSE Str(node.v)

Prefix(path, i) == SubSeq(path, 1, i)

\* The walk `for bit in path: target = target[bit]` from the root: "none" when
\* it ends on a node, KeyError when a dict lacks the bit, TypeError when the
\* walk has to index an int.
WalkExc(names, path) ==
    LET bad == {i \in 1..Len(path) : Prefix(path, i) \notin DOMAIN names}
    IN  IF bad = {} THEN "none"
        ELSE LET i == CHOOSE k \in bad : \A j \in bad : k <= j
             IN  IF names[Prefix(path, i - 1)].isdict THEN "KeyError" ELSE "TypeError"

\* get_in_current_namespace(name): self.get_current_namespace()[name]
get_in_current_namespace(a, name) ==
    LET path == a.current_namespace \o <<name>>
        exc == WalkExc(a.names, path)
    IN  [exc |-> exc, val |-> IF exc = "none" THEN StrVal(a.names[path]) ELSE <<>>]

\* target[name] = value: the node at path is replaced, what hung below it is gone
SetNode(names, path, node) ==
    LET keep == {p \in DOMAIN names :
                    ~(Len(p) > Len(path) /\ Prefix(p, Len(path)) = path)} \cup {path}
    IN  [p \in keep |-> IF p = path THEN node ELSE names[p]]

\* define_variable(name, value); exc is what the walk or the store raises
define_variable(a, name, value) ==
    LET exc == WalkExc(a.names, a.current_namespace)
    IN  IF exc # "none" THEN [exc |-> exc, a |-> a]
        ELSE IF ~a.names[a.current_namespace].isdict THEN [exc |-> "TypeError", a |-> a]
        ELSE [exc |-> "none",
              a |-> [a EXCEPT !.names = SetNode(@, a.current_namespace \o <<name>>, IntVal(value))]]

\* '_'.join(self._current_namespace + [name])
Mangle(a, name) == Join(US, a.current_namespace \o <<name>>)

\* self._func_sigs[mangled name] = sig
define_function(a, name, sig) ==
    LET key == Mangle(a, name)
    IN  [a EXCEPT !.func_sigs =
            [k \in DOMAIN @ \cup {key} |-> IF k = key THEN sig ELSE @[k]]]

NoSig == [num_args |-> -1, num_ret_values |-> -1]
\* self._func_sigs.get(name, None)
get_func_sig(a, name) == IF name \in DOMAIN a.func_sigs THEN a.func_sigs[name] ELSE NoSig

\* has_namespace(name): every bit of the walk is found (`bit in tmp`)
has_namespace(a, bits) ==
    LET bad == {i \in 1..Len(bits) : Prefix(bits, i) \notin DOMAIN a.names}
    IN  IF bad = {} THEN [exc |-> "none", val |-> TRUE]
        ELSE LET i == CHOOSE k \in bad : \A j \in bad : k <= j
             IN  IF a.names[Prefix(bits, i - 1)].isdict
                 THEN [exc |-> "none", val |-> FALSE]
                 ELSE [exc |-> "TypeError", val |-> FALSE]

\* resolve_registerish: "" when it raises NameError
resolve_registerish(a, register) ==
    IF register \in Range(REGISTERS) THEN [exc |-> "none", val |-> register]
    ELSE IF register \in Range(a.local_aliases)
         THEN [exc |-> "none", val |-> REGISTERS[Index(a.local_aliases, register) + 1]]
    ELSE [exc |-> "NameError", val |-> <<>>]

\* Entering `with self.namespace(bits)`: the missing dicts of the path are
\* created and the current namespace becomes bits (TypeError when the path
\* runs through an int).
namespace_enter(a, bits) ==
    LET through == {i \in 1..Len(bits) :
                       Prefix(bits, i - 1) \in DOMAIN a.names
                       /\ ~a.names[Prefix(bits, i - 1)].isdict}
        new == {Prefix(bits, i) : i \in 1..Len(bits)} \ DOMAIN a.names
    IN  IF through # {} THEN [exc |-> "TypeError", a |-> a]
        ELSE [exc |-> "none",
              a |-> [a EXCEPT !.names = [p \in DOMAIN @ \cup new |->
                                            IF p \in new THEN Dict ELSE @[p]],
                              !.current_namespace = bits]]

\* Leaving the block of `with self.namespace(bits)`.  The generator has no
\* try/finally around its yield: an exception thrown into it at the yield
\* leaves before `self._current_namespace = old` runs.
namespace_exit(a, old, raised) ==
    IF raised THEN a ELSE [a EXCEPT !.current_namespace = old]

\* resolve_nameish(node): [exc, val, a].  val is str() of the value.
resolve_nameish(a, node) ==
    IF node.t = "Num" THEN [exc |-> "none", val |-> Str(node.n), a |-> a]
    ELSE IF node.t = "Name" THEN
        LET r == resolve_registerish(a, node.id)
            g == get_in_current_namespace(a, node.id)
        IN  IF r.exc = "none" THEN [exc |-> "none", val |-> r.val, a |-> a]
            ELSE IF g.exc = "KeyError" THEN [exc |-> "NameError", val |-> <<>>, a |-> a]
            ELSE [exc |-> g.exc, val |-> g.val, a |-> a]
    ELSE IF node.t = "Attribute" THEN
        LET e == namespace_enter(a, node.path)
            g == get_in_current_namespace(e.a, node.id)
        IN  IF e.exc # "none" THEN [exc |-> e.exc, val |-> <<>>, a |-> a]
            ELSE IF g.exc = "none"
                 THEN [exc |-> "none", val |-> g.val,
                       a |-> namespace_exit(e.a, a.current_namespace, FALSE)]
            ELSE [exc |-> IF g.exc = "KeyError" THEN "NameError" ELSE g.exc,
                  val |-> <<>>,
                  a |-> namespace_exit(e.a, a.current_namespace, TRUE)]
    ELSE [exc |-> "TypeError", val |-> <<>>, a |-> a]

----------------------------------------------------------------------------
(* src/compiler.py: Compiler.  A handler is an operator from the assembler *)
(* a, the Compiler instance c = [failed, func_stack] and the node to       *)
(* [a, c, exc]; exc names the exception that leaves the handler ("none"    *)
(* when it returns).                                                       *)

Ret(a, c) == [a |-> a, c |-> c, exc |-> "none"]
Raise(a, c, exc) == [a |-> a, c |-> c, exc |-> exc]

\* Compiler.error: self._failed = True (the message goes to stderr)
error(c) == [c EXCEPT !.failed = TRUE]
Err(a, c) == Ret(a, error(c))

\* Compiler.warn: stderr only
warn(c) == c

\* _resolve_func_call_name(node): <<>> stands for the TypeError
resolve_func_call_name(func) ==
    IF func.t = "Name" THEN [exc |-> "none", val |-> func.id]
    ELSE IF func.t = "Attribute"
         THEN [exc |-> "none", val |-> Join(US, func.path \o <<func.id>>)]
    ELSE [exc |-> "TypeError", val |-> <<>>]

handle_builtin_continue(a, c, node) ==
    IF Len(a.loopstack) = 0 THEN Err(a, c)
    ELSE Ret(goto_label(a, a.loopstack[Len(a.loopstack)][1]), c)

\* handle_builtin_break as it would be reading the bottom of the loop stack
handle_builtin_break_outermost(a, c, node) ==
    IF Len(a.loopstack) = 0 THEN Err(a, c)
    ELSE Ret(goto_label(a, a.loopstack[1][2]), c)

handle_builtin_break(a, c, node) ==
    IF Len(a.loopstack) = 0 THEN Err(a, c)
    ELSE Ret(goto_label(a, a.loopstack[Len(a.loopstack)][2]), c)

\* handle_builtin_halt(self, node) is called as handler(node, compiler):
\* one argument too many, Python raises TypeError before the body runs
handle_builtin_halt(a, c, node) == Raise(a, c, "TypeError")

RECURSIVE define_enumerate_from(_, _, _, _)
define_enumerate_from(a, c, args, i) ==
    IF i > Len(args) THEN Ret(a, c)
    ELSE IF args[i].t = "Name"
         THEN LET d == define_variable(a, args[i].id, i - 1)
              IN  IF d.exc # "none" THEN Raise(d.a, c, d.exc)
                  ELSE define_enumerate_from(d.a, c, args, i + 1)
    ELSE define_enumerate_from(a, error(c), args, i + 1)

handle_builtin_define_enumerate(a, c, node) == define_enumerate_from(a, c, node.args, 1)

\* handle_builtin_memset; the call node carries a BinOp first argument as
\* binop (the operator's class name, "none" for another node), left, right
handle_builtin_memset(a, c, node) ==
    LET l == resolve_nameish(a, node.left)
        r == resolve_nameish(l.a, node.right)
        whole == resolve_nameish(a, node.args[1])
        located == IF node.binop # "none" THEN r.a ELSE whole.a
        location_value == IF node.binop # "none" THEN l.val \o <<"+">> \o r.val
                          ELSE whole.val
        v == resolve_nameish(located, node.args[2])
    IN  IF Len(node.args) # 2 THEN Err(a, c)
        ELSE IF node.binop \notin {"none", "Add"} THEN Err(a, c)
        ELSE IF node.binop = "Add" /\ l.exc # "none" THEN Err(l.a, c)
        ELSE IF node.binop = "Add" /\ r.exc # "none" THEN Err(r.a, c)
        ELSE IF node.binop = "none" /\ whole.exc # "none" THEN Err(whole.a, c)
        \* the value is resolved outside any try
        ELSE IF v.exc # "none" THEN Raise(v.a, c, v.exc)
        ELSE Ret(write_instruction(v.a, "SET",
                    <<<<"[">> \o location_value \o <<"]">>, v.val>>), c)

KnownBuiltins == {Builtin("halt"), Builtin("memset"), Builtin("continue"),
                  Builtin("break"), <<"builtin", US, "define", US, "enumerate">>}

RECURSIVE push_args_reversed(_, _, _)
\* push_args as it would be with the arguments walked last to first
push_args_reversed(a, args, i) ==
    IF i > Len(args) THEN [a |-> a, st |-> "ok"]
    ELSE LET r == resolve_nameish(a, args[Len(args) + 1 - i])
         IN  IF r.exc # "none" THEN [a |-> r.a, st |-> "error"]
             ELSE push_args_reversed(push_stack(r.a, r.val), args, i + 1)

RECURSIVE push_args(_, _, _)
\* for arg in node.args: resolve it, push it; st = "error" when an argument
\* does not resolve (the pushes already written stay)
push_args(a, args, i) ==
    IF i > Len(args) THEN [a |-> a, st |-> "ok"]
    ELSE LET r == resolve_nameish(a, args[i])
         IN  IF r.exc # "none" THEN [a |-> r.a, st |-> "error"]
             ELSE push_args(push_stack(r.a, r.val), args, i + 1)

\* the check of line 387 and what the line does when it fails: the message
\* has three %s and two values, so the % raises TypeError before error() runs
arity_ok(node, signature) == Len(node.args) = signature.num_args

handle_Call(a, c, node) ==
    LET n == resolve_func_call_name(node.func)
        name == n.val
        signature == get_func_sig(a, name)
        p == push_args(a, node.args, 1)
    IN  IF n.exc # "none" THEN Err(a, c)
        ELSE IF StartsWithBuiltin(name) THEN
            IF name \notin KnownBuiltins THEN Err(a, c)
            ELSE IF name = Builtin("halt") THEN handle_builtin_halt(a, c, node)
            ELSE IF name = Builtin("memset") THEN handle_builtin_memset(a, c, node)
            ELSE IF name = Builtin("continue") THEN handle_builtin_continue(a, c, node)
            ELSE IF name = Builtin("break") THEN handle_builtin_break(a, c, node)
            ELSE handle_builtin_define_enumerate(a, c, node)
        ELSE IF signature = NoSig THEN Err(a, c)
        ELSE IF ~arity_ok(node, signature) THEN Raise(a, c, "TypeError")
        ELSE IF p.st = "error" THEN Err(p.a, c)
        ELSE Ret(write_instruction(p.a, "JSR", <<name>>), c)

\* _assign(instruction, node) with node = [targets, value]; an AugAssign has
\* the one target node.target
assign(a, c, instruction, node) ==
    LET target == node.targets[1]
        reg == resolve_registerish(a, target.id)
        value == resolve_nameish(a, node.value)
    IN  IF Len(node.targets) # 1 THEN Err(a, c)
        ELSE IF target.t # "Name" THEN Err(a, c)
        ELSE IF reg.exc # "none" THEN Err(a, c)
        ELSE IF value.exc # "none" THEN Err(value.a, c)
        ELSE Ret(write_instruction(value.a, instruction, <<reg.val, value.val>>), c)

RECURSIVE pop_targets(_, _, _, _)
\* for target in reversed(node.targets): resolve it, pop into it
pop_targets(a, c, targets, i) ==
    IF i < 1 THEN Ret(a, c)
    ELSE LET r == resolve_nameish(a, targets[i])
         IN  IF r.exc # "none" THEN Err(r.a, c)
             ELSE pop_targets(pop_stack(r.a, r.val), c, targets, i - 1)

\* the check of _call_assign as it would be with < for !=
targets_ok_atmost(node, signature) == Len(node.targets) <= signature.num_ret_values

\* num_targets != signature['num_ret_values']
targets_ok(node, signature) == Len(node.targets) = signature.num_ret_values

\* _call_assign(node) with node = [targets, call]
call_assign(a, c, node) ==
    LET n == resolve_func_call_name(node.call.func)
        signature == get_func_sig(a, n.val)
        call == handle_Call(a, c, node.call)
    IN  \* the except branch formats node.func of the Assign node: AttributeError
        IF n.exc # "none" THEN Raise(a, c, "AttributeError")
        ELSE IF signature = NoSig THEN Err(a, c)
        ELSE IF ~targets_ok(node, signature) THEN Err(a, c)
        ELSE IF call.exc # "none" THEN call
        ELSE pop_targets(call.a, call.c, node.targets, Len(node.targets))

handle_Assign(a, c, node) ==
    IF node.is_call THEN call_assign(a, c, node) ELSE assign(a, c, "SET", node)

AugOps == [Add |-> "ADD", Sub |-> "SUB", Mult |-> "MUL", Div |-> "DIV", LShift |-> "SHL",
           RShift |-> "SHR", BitOr |-> "BOR", BitAnd |-> "AND", BitXor |-> "XOR"]

handle_AugAssign(a, c, node) ==
    IF node.op \notin DOMAIN AugOps THEN Err(a, c)
    ELSE assign(a, c, AugOps[node.op], node)

\* handle_Expr: self.handle(node.value); the statement's value is a Call or a
\* node without handler (handle warns and goes on)
handle_Expr(a, c, node) ==
    IF node.is_call THEN handle_Call(a, c, node.call) ELSE Ret(a, warn(c))

RECURSIVE push_elts(_, _, _)
\* the Tuple branch of handle_Return: NameError is caught, TypeError is not
push_elts(a, elts, i) ==
    IF i > Len(elts) THEN [a |-> a, exc |-> "none"]
    ELSE LET r == resolve_nameish(a, elts[i])
         IN  IF r.exc # "none" THEN [a |-> r.a, exc |-> r.exc]
             ELSE push_elts(push_stack(r.a, r.val), elts, i + 1)

\* self._func_stack[-1]['num_ret_values'] = num_ret_values
set_num_ret_values(c, n) ==
    [c EXCEPT !.func_stack[Len(c.func_stack)].num_ret_values = n]

\* handle_Return with node = [vt, elts]: vt is "Name" (elts holds the name),
\* "Tuple", or another node kind (no branch binds num_ret_values)
handle_Return(a, c, node) ==
    LET p == push_elts(a, node.elts, 1)
    IN  IF node.vt \notin {"Name", "Tuple"} THEN Raise(a, c, "UnboundLocalError")
        ELSE IF p.exc = "NameError" THEN Err(p.a, c)
        ELSE IF p.exc # "none" THEN Raise(p.a, c, p.exc)
        ELSE IF Len(c.func_stack) = 0 THEN Raise(p.a, c, "IndexError")
        ELSE Ret(p.a, set_num_ret_values(c, Len(node.elts)))

\* 'builtin_loop_%s_start' % num and 'builtin_loop_%s_end' % num
start_label_of(num) == <<"builtin", US, "loop", US>> \o Str(num) \o <<US, "start">>
end_label_of(num) == <<"builtin", US, "loop", US>> \o Str(num) \o <<US, "end">>

\* the compare-and-skip instruction of a while test and whether the operands
\* are swapped; "" for an operator that is not supported
WhileInstruction(operator) ==
    IF operator = "NotEq" THEN [ins |-> "IFE", swap |-> FALSE]
    ELSE IF operator = "Eq" THEN [ins |-> "IFN", swap |-> FALSE]
    ELSE IF operator = "Gt" THEN [ins |-> "IFG", swap |-> TRUE]
    ELSE IF operator = "Lt" THEN [ins |-> "IFG", swap |-> FALSE]
    ELSE [ins |-> "", swap |-> FALSE]

\* handle_While up to its body, with node = [is_compare, left, ops,
\* comparators]: [a, c, exc, entered, start, end]; entered says that the
\* loop context is pushed and the body is lowered next
handle_While_enter(a, c, node) ==
    LET num == a.counters.loop + 1
        start_label == start_label_of(num)
        end_label == end_label_of(num)
        a1 == write_label([a EXCEPT !.counters.loop = num], start_label)
        c1 == IF Len(node.comparators) # 1 THEN error(c) ELSE c
        right == node.comparators[1]
        rv == resolve_nameish(a1, right)
        lv == resolve_nameish(rv.a, node.left)
        w == WhileInstruction(node.ops[1])
        a2 == write_instruction(lv.a, w.ins,
                 IF w.swap THEN <<rv.val, lv.val>> ELSE <<lv.val, rv.val>>)
        a3 == goto_label(a2, end_label)
        a4 == [a3 EXCEPT !.loopstack = Append(@, <<start_label, end_label>>)]
        out(aa, cc, exc, entered) ==
            [a |-> aa, c |-> cc, exc |-> exc, entered |-> entered,
             start |-> start_label, end |-> end_label]
    IN  \* error() and no return: node.test.comparators raises AttributeError
        IF ~node.is_compare THEN out(a1, error(c), "AttributeError", FALSE)
        ELSE IF rv.exc = "TypeError" THEN out(rv.a, error(c1), "none", FALSE)
        \* the messages of the NameError branches format right.id
        ELSE IF rv.exc = "NameError" THEN
            IF right.t = "Name" THEN out(rv.a, error(c1), "none", FALSE)
            ELSE out(rv.a, c1, "AttributeError", FALSE)
        ELSE IF lv.exc = "TypeError" THEN out(lv.a, error(c1), "none", FALSE)
        ELSE IF lv.exc = "NameError" THEN
            IF right.t = "Name" THEN out(lv.a, error(c1), "none", FALSE)
            ELSE out(lv.a, c1, "AttributeError", FALSE)
        ELSE IF Len(node.ops) # 1 THEN out(lv.a, error(c1), "none", FALSE)
        ELSE IF w.ins = "" THEN out(lv.a, error(c1), "none", FALSE)
        ELSE out(a4, c1, "none", TRUE)

\* the label handle_While writes after the body (line 489)
closing_label(start_label, end_label) == start_label

\* handle_While after its body: the loop context is popped, then the jump
\* back and the closing label
handle_While_exit(a, c, start_label, end_label) ==
    LET a1 == [a EXCEPT !.loopstack = SubSeq(@, 1, Len(@) - 1)]
        a2 == goto_label(a1, start_label)
    IN  Ret(write_label(a2, closing_label(start_label, end_label)), c)

RECURSIVE unload_args(_, _)
\* for i in range(num_args - 1, -1, -1): pop_stack(REGISTERS[i])
unload_args(a, i) ==
    IF i < 1 THEN a ELSE unload_args(pop_stack(a, REGISTERS[i]), i - 1)

NewSig(num_args) == [num_args |-> num_args, num_ret_values |-> 0]

\* handle_FunctionDef up to its body, with node = [name, args]
handle_FunctionDef_enter(a, c, node) ==
    LET num_args == Len(node.args)
        a1 == write_label([a EXCEPT !.current = "footer"], node.name)
        a2 == pop_stack(a1, Id("J"))
        a3 == unload_args(a2, num_args)
        a4 == [a3 EXCEPT !.local_aliases = node.args]
        c1 == [c EXCEPT !.func_stack = Append(@, NewSig(num_args))]
    IN  IF StartsWithBuiltin(node.name) THEN [a |-> a, c |-> error(c), entered |-> FALSE]
        ELSE IF num_args > 7 THEN [a |-> a, c |-> error(c), entered |-> FALSE]
        ELSE [a |-> a4, c |-> c1, entered |-> TRUE]

\* handle_FunctionDef after its body
handle_FunctionDef_exit(a, c, name, old_aliases, old_current) ==
    LET a1 == [a EXCEPT !.local_aliases = old_aliases]
        a2 == goto_label(a1, Id("J"))
        func_sig == c.func_stack[Len(c.func_stack)]
        c1 == [c EXCEPT !.func_stack = SubSeq(@, 1, Len(@) - 1)]
        a3 == define_function(a2, name, func_sig)
    IN  Ret([a3 EXCEPT !.current = old_current], c1)

\* Compiler(assembler, find_paths, filename)
NewCompiler == [failed |-> FALSE, func_stack |-> <<>>]

\* handle_Import of one alias up to the module's body, with node = [bits,
\* asname]; found says whether _find_source finds a file for the name
handle_Import_enter(a, c, node, found) ==
    LET c1 == IF node.asname THEN error(c) ELSE c
        h == has_namespace(a, node.bits)
        e == namespace_enter(a, node.bits)
        out(aa, cc, exc, entered) == [a |-> aa, c |-> cc, exc |-> exc, entered |-> entered]
    IN  IF h.exc # "none" THEN out(a, c1, h.exc, FALSE)
        ELSE IF h.val THEN out(a, c1, "none", FALSE)
        ELSE IF ~found THEN out(a, error(c1), "none", FALSE)
        ELSE IF e.exc # "none" THEN out(a, c1, e.exc, FALSE)
        ELSE out(e.a, c1, "none", TRUE)

\* handle_Import after compiler.compile(source) returned for the module: sub
\* is the module's Compiler, c the importing one
handle_Import_exit(a, c, sub, old_namespace) ==
    Ret(namespace_exit(a, old_namespace, FALSE), IF sub.failed THEN error(c) ELSE c)

----------------------------------------------------------------------------
(* The programs fed to src/compiler.py: the nodes each step draws from.    *)

Call(func, args) == [func |-> func, args |-> args, binop |-> "none",
                     left |-> Other, right |-> Other]
ExprNode(call) == [is_call |-> TRUE, call |-> call]
\* an expression statement whose value has no handler (a string, a name)
BareExprNode == [is_call |-> FALSE, call |-> Call(Other, <<>>)]
AssignNode(targets, value) ==
    [is_call |-> FALSE, targets |-> targets, value |-> value, call |-> Call(Other, <<>>)]
CallAssignNode(targets, call) ==
    [is_call |-> TRUE, targets |-> targets, value |-> Other, call |-> call]
AugAssignNode(op, target, value) == [op |-> op, targets |-> <<target>>, value |-> value]
ReturnNode(vt, elts) == [vt |-> vt, elts |-> elts]
WhileNode(left, op, right) ==
    [is_compare |-> TRUE, left |-> left, ops |-> <<op>>, comparators |-> <<right>>]
\* `while A:` - the test is a Name, not a Compare
WhileNoCompare == [is_compare |-> FALSE, left |-> Other, ops |-> <<>>, comparators |-> <<>>]
FunctionDefNode(name, args) == [name |-> name, args |-> args]
ImportNode(bits, asname) == [bits |-> bits, asname |-> asname]
\* a statement of a class without handler (pass, if, ...)
NoNode == [kind |-> "none"]

rA == Name(Id("A"))
rB == Name(Id("B"))
rC == Name(Id("C"))
nx == Name(Id("x"))
ny == Name(Id("y"))
fn_f == Name(Id("f"))

\* f(1, A), f(1): calls of the two-parameter function f
CallF2 == Call(fn_f, <<Num(1), rA>>)
CallF1 == Call(fn_f, <<Num(1)>>)

CallNodes == {CallF2, CallF1,
              Call(Name(Builtin("break")), <<>>),
              Call(Name(Builtin("continue")), <<>>),
              Call(Name(Builtin("halt")), <<>>)}

\* A = a.b.c (no such constant)
AssignNodes == {AssignNode(<<rA>>, Attr(<<Id("a"), Id("b")>>, Id("c")))}

\* A = f(1, A);  A = B = f(1, A);  A = B = C = f(1, A)
CallAssignNodes == {CallAssignNode(<<rA>>, CallF2),
                    CallAssignNode(<<rA, rB>>, CallF2),
                    CallAssignNode(<<rA, rB, rC>>, CallF2)}

\* A -= 1
AugAssignNodes == {AugAssignNode("Sub", rA, Num(1))}

\* return x, y;  return
ReturnNodes == {ReturnNode("Tuple", <<nx, ny>>), ReturnNode("None", <<>>)}

\* while A != 0;  while A
WhileNodes == {WhileNode(rA, "NotEq", Num(0)), WhileNoCompare}

\* def f(x, y)
FunctionDefNodes == {FunctionDefNode(Id("f"), <<Id("x"), Id("y")>>)}

\* import m
ImportNodes == {ImportNode(<<Id("m")>>, FALSE)}

\* the module names for which _find_source finds a file on the search paths
Sources == {<<Id("m")>>, <<Id("m"), Id("n")>>}
find_source(bits) == bits \in Sources

\* A = 5;  B = A
LiteralAssign == AssignNode(<<rA>>, Num(5))
RegisterAssign == AssignNode(<<rB>>, rA)

\* return x
ReturnOne == ReturnNode("Name", <<nx>>)

\* zz: a name that is no register, no alias and no constant
nzz == Name(Id("zz"))
\* A = zz;  f(1, zz);  A = zz = f(1, A);  while A != zz
UndefinedAssign == AssignNode(<<rA>>, nzz)
UndefinedArgument == Call(fn_f, <<Num(1), nzz>>)
UndefinedTarget == CallAssignNode(<<rA, nzz>>, CallF2)
UndefinedOperand == WhileNode(rA, "NotEq", nzz)

\* A = m.x (no such constant);  import m.n
DottedReference == AssignNode(<<rA>>, Attr(<<Id("m")>>, Id("x")))
ImportSubmodule == ImportNode(<<Id("m"), Id("n")>>, FALSE)

\* a family without statements
NoNodes == [Assign |-> {}, AugAssign |-> {}, Expr |-> {}, Return |-> {},
            Unsupported |-> {}, While |-> {}, FunctionDef |-> {}, Import |-> {}]

\* The sources are drawn from families of programs; a family is the set of
\* statements its programs are made of, by handler.
Alphabet ==
    [base |-> [Assign |-> AssignNodes \cup CallAssignNodes,
               AugAssign |-> AugAssignNodes,
               Expr |-> {ExprNode(call) : call \in CallNodes} \cup {BareExprNode},
               Return |-> ReturnNodes,
               Unsupported |-> {NoNode},
               While |-> WhileNodes,
               FunctionDef |-> FunctionDefNodes,
               Import |-> ImportNodes],
     assign |-> [NoNodes EXCEPT !.Assign = {LiteralAssign, RegisterAssign}],
     returns |-> [NoNodes EXCEPT !.FunctionDef = FunctionDefNodes,
                                 !.Return = {ReturnOne, ReturnNode("Tuple", <<nx, ny>>)}],
     errors |-> [NoNodes EXCEPT !.FunctionDef = FunctionDefNodes,
                                !.Return = {ReturnNode("Tuple", <<nx, ny>>)},
                                !.Assign = {UndefinedAssign, UndefinedTarget},
                                !.Expr = {ExprNode(UndefinedArgument)},
                                !.While = {UndefinedOperand}],
     imports |-> [NoNodes EXCEPT !.Assign = {DottedReference},
                                 !.Import = ImportNodes \cup {ImportSubmodule}]]

----------------------------------------------------------------------------
(* State of one run of src/compiler.py's main()                            *)

VARIABLES
    body,               \* Assembler._body
    footer,             \* Assembler._footer
    current,            \* Assembler._current: "body" or "footer"
    loopstack,          \* Assembler._loopstack
    counters,           \* Assembler._counters
    names,              \* Assembler._names
    current_namespace,  \* Assembler._current_namespace
    local_aliases,      \* Assembler._local_aliases
    func_sigs,          \* Assembler._func_sigs
    compilers,          \* the Compiler instances running, the importing ones first
    frames,             \* the compound statements whose body is being lowered
    pc,                 \* "run", "done" (compile returned), "raised"
    nstmts,             \* statements fed so far
    family,             \* the family of programs the source belongs to
    last                \* the last node handled and the state it was handled in

avars == <<body, footer, current, loopstack, counters, names, current_namespace,
           local_aliases, func_sigs>>
mvars == <<body, footer, current, loopstack, counters, names, current_namespace,
           local_aliases, func_sigs, compilers, frames, pc, nstmts, family, last>>

(* State of one run of src/llpy16/compiler.py's do_compile()               *)

VARIABLES
    ctx_modules,            \* Context._modules
    ctx_functions,          \* the Function objects, by identity
    ctx_namespaces,         \* Context._namespaces: namespace -> name -> Function
    ctx_current_namespace,  \* Context._current_namespace
    asm_body,               \* llpy16 Assembler._body
    asm_labels,             \* llpy16 Assembler._labels
    asm_open,               \* the label bodies being written, _current last
    todo,                   \* what the running handlers still have to do
    cpc,                    \* "run", "done", "raised"
    fed,                    \* top-level statements handled
    init_calls,             \* per module: calls of its init hook
    compiled,               \* per module: compilations of its source
    lowered                 \* per function name: write_function calls

cvars == <<ctx_modules, ctx_functions, ctx_namespaces, ctx_current_namespace,
           asm_body, asm_labels, asm_open, todo, cpc, fed, init_calls, compiled,
           lowered>>

(* The inputs and results of the name mangling, and the state of the       *)
(* target machine running an assembled program.                            *)

VARIABLES
    query,      \* two (namespace path, bare name) pairs
    mangled,    \* their mangled names, once computed
    prog,       \* the program loaded into the machine
    regs,       \* the registers of the machine
    stack,      \* its stack, the top last
    ip,         \* the line it executes next; 0 when it stands
    calls,      \* the subroutine calls in progress, the innermost last
    prev        \* the line it executed last

xvars == <<query, mangled, prog, regs, stack, ip, calls, prev>>

(* A call of an extension (macro) and what its callback was called with.   *)

VARIABLES
    macro_call, \* the ast.Call node and the namespace it stands in
    passed      \* the arguments the extension was called with, once evaluated

gvars == <<macro_call, passed>>

vars == <<mvars, cvars, xvars, gvars>>

Asm == [body |-> body, footer |-> footer, current |-> current,
        loopstack |-> loopstack, counters |-> counters, names |-> names,
        current_namespace |-> current_namespace, local_aliases |-> local_aliases,
        func_sigs |-> func_sigs]

\* the Compiler instance whose handler runs
Cur == compilers[Len(compilers)]

\* Assembler.__init__ as it would be without `with self.footer()`: the trap
\* is written into the body
AssemblerInit_in_body ==
    LET a0 == [body |-> <<>>, footer |-> <<>>, current |-> "body",
               loopstack |-> <<>>, counters |-> [loop |-> 0],
               names |-> (<<>> :> Dict), current_namespace |-> <<>>,
               local_aliases |-> <<>>, func_sigs |-> <<>>]
        a1 == goto_label(a0, Builtin("halt"))
        a2 == write_label(a1, Builtin("halt"))
    IN  goto_label(a2, Builtin("halt"))

\* Assembler.__init__
AssemblerInit ==
    LET a0 == [body |-> <<>>, footer |-> <<>>, current |-> "footer",
               loopstack |-> <<>>, counters |-> [loop |-> 0],
               names |-> (<<>> :> Dict), current_namespace |-> <<>>,
               local_aliases |-> <<>>, func_sigs |-> <<>>]
        a1 == goto_label(a0, Builtin("halt"))
        a2 == write_label(a1, Builtin("halt"))
        a3 == goto_label(a2, Builtin("halt"))
    IN  [a3 EXCEPT !.current = "body"]

\* A frame is an open compound statement: its node, the children of its body
\* handled so far, and the locals its handler holds across the body.
NoFrame == [kind |-> "none", node |-> <<>>, children |-> <<>>,
            start |-> <<>>, end |-> <<>>, name |-> <<>>,
            old_current |-> "body", old_aliases |-> <<>>, old_namespace |-> <<>>]

SetAsm(a) ==
    /\ body' = a.body
    /\ footer' = a.footer
    /\ current' = a.current
    /\ loopstack' = a.loopstack
    /\ counters' = a.counters
    /\ names' = a.names
    /\ current_namespace' = a.current_namespace
    /\ local_aliases' = a.local_aliases
    /\ func_sigs' = a.func_sigs

MainInit ==
    /\ body = AssemblerInit.body
    /\ footer = AssemblerInit.footer
    /\ current = AssemblerInit.current
    /\ loopstack = AssemblerInit.loopstack
    /\ counters = AssemblerInit.counters
    /\ names = AssemblerInit.names
    /\ current_namespace = AssemblerInit.current_namespace
    /\ local_aliases = AssemblerInit.local_aliases
    /\ func_sigs = AssemblerInit.func_sigs
    /\ compilers = <<NewCompiler>>
    /\ frames = <<>>
    /\ pc = "run"
    /\ nstmts = 0
    /\ family \in DOMAIN Alphabet
    /\ last = [kind |-> "init", node |-> NoFrame, a |-> AssemblerInit,
               c |-> NewCompiler, exc |-> "none", entered |-> FALSE,
               earlier |-> {}]

\* the node handled, the state it was handled in, how its handler ended and
\* the modules named by the import statements handled before it
Log(kind, node, exc, entered) ==
    /\ last' = [kind |-> kind, node |-> node, a |-> Asm, c |-> Cur, exc |-> exc,
                entered |-> entered,
                earlier |-> IF last.kind = "Import"
                            THEN last.earlier \cup {last.node.bits}
                            ELSE last.earlier]
    /\ UNCHANGED <<family, cvars, xvars, gvars>>

\* what a handler leaves behind: r = [a, c, exc]
Handled(kind, node, r, entered) ==
    /\ SetAsm(r.a)
    /\ compilers' = [compilers EXCEPT ![Len(compilers)] = r.c]
    /\ pc' = IF r.exc = "none" THEN "run" ELSE "raised"
    /\ Log(kind, node, r.exc, entered)

\* the node becomes a child of the body being lowered
Child(kind, node) ==
    IF Len(frames) = 0 THEN frames
    ELSE [frames EXCEPT ![Len(frames)].children = Append(@, [kind |-> kind, node |-> node])]

\* an exception (pc' = "raised") leaves every running handler: no body is
\* being lowered any more (the context managers the exception passes
\* restore nothing, they have no try/finally)
Unwound(fs) == IF pc' = "run" THEN fs ELSE <<>>

Push(kind, node, frame, entered) ==
    IF entered THEN Append(Child(kind, node), [frame EXCEPT !.kind = kind, !.node = node])
    ELSE Child(kind, node)

\* the statements of the family of the source that a handler is fed
Nodes(kind) == Alphabet[family][kind]

CanFeed == pc = "run" /\ nstmts < MaxStmts

\* handle(node) of a statement without body
Simple(kind, node, r) ==
    /\ Handled(kind, node, r, FALSE)
    /\ nstmts' = nstmts + 1
    /\ frames' = Unwound(Child(kind, node))

Assign == \E node \in Nodes("Assign") :
    /\ CanFeed
    /\ Simple("Assign", node, handle_Assign(Asm, Cur, node))

AugAssign == \E node \in Nodes("AugAssign") :
    /\ CanFeed
    /\ Simple("AugAssign", node, handle_AugAssign(Asm, Cur, node))

Expr == \E node \in Nodes("Expr") :
    /\ CanFeed
    /\ Simple("Expr", node, handle_Expr(Asm, Cur, node))

Return == \E node \in Nodes("Return") :
    /\ CanFeed
    /\ Simple("Return", node, handle_Return(Asm, Cur, node))

\* handle(node) of a node class without handler (pass, if, ...): a warning
Unsupported == \E node \in Nodes("Unsupported") :
    /\ CanFeed
    /\ Simple("Unsupported", node, Ret(Asm, warn(Cur)))

While == \E node \in Nodes("While") :
    /\ CanFeed
    /\ Len(frames) < MaxDepth
    /\ LET r == handle_While_enter(Asm, Cur, node)
       IN  /\ Handled("While", node, r, r.entered)
           /\ frames' = Unwound(Push("While", node,
                            [NoFrame EXCEPT !.start = r.start, !.end = r.end], r.entered))
    /\ nstmts' = nstmts + 1

FunctionDef == \E node \in Nodes("FunctionDef") :
    /\ CanFeed
    /\ Len(frames) < MaxDepth
    /\ LET r == handle_FunctionDef_enter(Asm, Cur, node)
       IN  /\ Handled("FunctionDef", node, Ret(r.a, r.c), r.entered)
           /\ frames' = Push("FunctionDef", node,
                            [NoFrame EXCEPT !.name = node.name, !.old_current = current,
                                            !.old_aliases = local_aliases], r.entered)
    /\ nstmts' = nstmts + 1

Import == \E node \in Nodes("Import") :
    /\ CanFeed
    /\ Len(frames) < MaxDepth
    /\ LET r == handle_Import_enter(Asm, Cur, node, find_source(node.bits))
       IN  /\ SetAsm(r.a)
           /\ compilers' = IF r.entered
                           THEN Append([compilers EXCEPT ![Len(compilers)] = r.c], NewCompiler)
                           ELSE [compilers EXCEPT ![Len(compilers)] = r.c]
           /\ pc' = IF r.exc = "none" THEN "run" ELSE "raised"
           /\ Log("Import", node, r.exc, r.entered)
           /\ frames' = Unwound(Push("Import", node,
                            [NoFrame EXCEPT !.old_namespace = current_namespace], r.entered))
    /\ nstmts' = nstmts + 1

Top == frames[Len(frames)]

\* the body of the innermost open statement is exhausted: its handler goes on
EndBody(kind) ==
    /\ pc = "run"
    /\ Len(frames) > 0
    /\ Top.kind = kind
    /\ frames' = SubSeq(frames, 1, Len(frames) - 1)
    /\ UNCHANGED nstmts

EndWhile ==
    /\ EndBody("While")
    /\ Handled("EndWhile", Top, handle_While_exit(Asm, Cur, Top.start, Top.end), FALSE)

EndFunctionDef ==
    /\ EndBody("FunctionDef")
    /\ Handled("EndFunctionDef", Top,
               handle_FunctionDef_exit(Asm, Cur, Top.name, Top.old_aliases, Top.old_current),
               FALSE)

EndImport ==
    /\ EndBody("Import")
    /\ LET r == handle_Import_exit(Asm, compilers[Len(compilers) - 1], Cur, Top.old_namespace)
       IN  /\ SetAsm(r.a)
           /\ compilers' = [SubSeq(compilers, 1, Len(compilers) - 1)
                               EXCEPT ![Len(compilers) - 1] = r.c]
           /\ pc' = "run"
           /\ Log("EndImport", Top, "none", FALSE)

\* Compiler.compile of main(): handle_Module has handled every child
Finish ==
    /\ pc = "run"
    /\ frames = <<>>
    /\ pc' = "done"
    /\ Log("Finish", NoFrame, "none", FALSE)
    /\ UNCHANGED <<avars, compilers, frames, nstmts>>

\* compile's return value: not self._failed
success == ~compilers[1].failed

Next ==
    \/ Assign
    \/ AugAssign
    \/ Expr
    \/ Return
    \/ Unsupported
    \/ While
    \/ FunctionDef
    \/ Import
    \/ EndWhile
    \/ EndFunctionDef
    \/ EndImport
    \/ Finish


----------------------------------------------------------------------------
(* Properties of src/compiler.py                                           *)

\* get_assembled(): the lines of the body segment, then those of the footer
Assembled == body \o footer

IsLabel(line) == line.op = ":"

\* the segment the last handler started to write into, before and after it
SegBefore == IF last.a.current = "body" THEN last.a.body ELSE last.a.footer
SegAfter == IF last.a.current = "body" THEN body ELSE footer
\* the lines the last handler appended to that segment
Appended == SubSeq(SegAfter, Len(SegBefore) + 1, Len(SegAfter))
\* the other segment is as it was
OtherSegmentUnchanged == IF last.a.current = "body" THEN footer = last.a.footer
                         ELSE body = last.a.body
NothingEmitted == body = last.a.body /\ footer = last.a.footer

Jump(label) == Ins("SET", <<PC, label>>)

\* C1: in the assembled output of every compiled program no two label lines
\* have the same text.
C1_LabelsUnique ==
    pc = "done" =>
        \A i, j \in DOMAIN Assembled :
            (i # j /\ IsLabel(Assembled[i]) /\ IsLabel(Assembled[j]))
                => Assembled[i].args # Assembled[j].args

IsScenarioB ==
    /\ last.kind = "EndWhile"
    /\ nstmts = 2
    /\ frames = <<>>
    /\ last.node.node = WhileNode(rA, "NotEq", Num(0))
    /\ last.node.children = <<[kind |-> "AugAssign", node |-> AugAssignNode("Sub", rA, Num(1))]>>

\* C2: `while A != 0: A -= 1` compiles to exactly: the loop-start label, the
\* not-equal-skip comparison (IFE) of A against 0x0000, a jump to the loop-end
\* label, a SUB of one on A, a jump to the loop-start label, the loop-end label.
C2_ScenarioB ==
    IsScenarioB =>
        /\ Len(body) = 6
        /\ body[1] = LabelLine(start_label_of(1))
        /\ body[2] = Ins("IFE", <<Id("A"), Hex4(0)>>)
        /\ body[3] = Jump(end_label_of(1))
        /\ body[4].op = "SUB" /\ body[4].args[1] = Id("A")
        /\ body[4].args[2] \in {Str(1), Hex4(1)}
        /\ body[5] = Jump(start_label_of(1))
        /\ body[6] = LabelLine(end_label_of(1))

\* C4: a statement that reports its error and returns leaves the current
\* namespace as it found it, so the next statement is compiled in the same
\* namespace - also when a dotted lookup failed inside resolve_nameish.
C4_NamespaceRestored ==
    (last.kind \in {"Assign", "AugAssign", "Expr", "Return"} /\ pc = "run")
        => current_namespace = last.a.current_namespace

\* C5: Compiler.compile never raises: every handler reports its hard error
\* and returns, so the statements after the offending one are visited.
C5_CompileNeverRaises == pc # "raised"

\* the call the last statement made, when it is a call of a declared function
LastCall == last.node.call
LastCallName == resolve_func_call_name(LastCall.func).val
LastCallSig == get_func_sig(last.a, LastCallName)
IsFunctionCall ==
    /\ last.kind \in {"Expr", "Assign"}
    /\ last.node.is_call
    /\ resolve_func_call_name(LastCall.func).exc = "none"
    /\ ~StartsWithBuiltin(LastCallName)
    /\ LastCallSig # NoSig

ArgsResolve == \A i \in DOMAIN LastCall.args : resolve_nameish(last.a, LastCall.args[i]).exc = "none"

\* k pushes in source argument order, then the JSR
CallSequence ==
    [i \in 1..Len(LastCall.args) |->
        Ins("SET", <<PUSH, resolve_nameish(last.a, LastCall.args[i]).val>>)]
    \o <<Ins("JSR", <<LastCallName>>)>>

IsPop(line) == line.op = "SET" /\ Len(line.args) = 2 /\ line.args[2] = POP

C7_ArityMismatchReported ==
    (IsFunctionCall /\ last.kind = "Expr" /\ Len(LastCall.args) # LastCallSig.num_args)
        => /\ pc = "run"
           /\ Cur.failed
           /\ NothingEmitted

\* C8 (1): a function whose body is `return x, y` has return-value count 2.
ReturnsPair ==
    /\ last.kind = "EndFunctionDef"
    /\ last.node.children = <<[kind |-> "Return", node |-> ReturnNode("Tuple", <<nx, ny>>)]>>
    /\ last.node.node.args = <<Id("x"), Id("y")>>

\* every target of the assignment resolves
TargetsResolve ==
    \A i \in DOMAIN last.node.targets :
        resolve_nameish(last.a, last.node.targets[i]).exc = "none"

\* C8: a function compiled from `return x, y` has return-value count 2, and an
\* assignment from a call of a function with return-value count 2 is accepted
\* only with exactly two targets (then, when arguments and targets resolve,
\* the call is followed by the two pops): with another number of targets
\* _call_assign reports a hard error and emits neither the call nor a pop.
C8_MultiReturn ==
    /\ ReturnsPair => get_func_sig(Asm, Mangle(Asm, last.node.name)).num_ret_values = 2
    /\ (IsFunctionCall /\ last.kind = "Assign" /\ LastCallSig.num_ret_values = 2)
        => IF Len(last.node.targets) = 2
           THEN (Len(LastCall.args) = LastCallSig.num_args /\ ArgsResolve /\ TargetsResolve)
                    => /\ pc = "run"
                       /\ Cur = last.c
                       /\ Appended = CallSequence \o
                            <<Ins("SET", <<resolve_nameish(last.a, last.node.targets[2]).val, POP>>),
                              Ins("SET", <<resolve_nameish(last.a, last.node.targets[1]).val, POP>>)>>
           ELSE pc = "run" /\ Cur.failed /\ NothingEmitted

C8_Witness ==
    /\ IsFunctionCall /\ last.kind = "Assign" /\ LastCallSig.num_ret_values = 2
    /\ Len(last.node.targets) = 3
    /\ Cur.failed /\ ~last.c.failed /\ NothingEmitted

\* the while loops whose body is being lowered, the outermost first
RECURSIVE OpenLoopsOf(_)
OpenLoopsOf(fs) ==
    IF fs = <<>> THEN <<>>
    ELSE IF fs[1].kind = "While" THEN <<fs[1]>> \o OpenLoopsOf(Tail(fs))
    ELSE OpenLoopsOf(Tail(fs))
OpenLoops == OpenLoopsOf(frames)
Innermost == OpenLoops[Len(OpenLoops)]

IsLoopControl(which) ==
    /\ last.kind = "Expr"
    /\ last.node.is_call
    /\ LastCall.func = Name(Builtin(which))
    /\ OpenLoops # <<>>

\* C9: a break (continue) inside while loops nested to any depth appends one
\* jump to the end (start) label of the innermost loop being lowered, which is
\* no label of an enclosing loop; once the inner loop is left the next
\* break/continue jumps to the labels of the loop around it.
C9_InnermostLoop ==
    /\ IsLoopControl("break") =>
          /\ Appended = <<Jump(Innermost.end)>>
          /\ \A i \in 1..(Len(OpenLoops) - 1) :
                Innermost.end \notin {OpenLoops[i].start, OpenLoops[i].end}
    /\ IsLoopControl("continue") =>
          /\ Appended = <<Jump(Innermost.start)>>
          /\ \A i \in 1..(Len(OpenLoops) - 1) :
                Innermost.start \notin {OpenLoops[i].start, OpenLoops[i].end}
    /\ (IsLoopControl("break") \/ IsLoopControl("continue")) =>
          pc = "run" /\ OtherSegmentUnchanged /\ Cur = last.c

\* a break in the outer body after the inner loop was left; the inner loop
\* holds two jumps to its own end label, the one of its test and the one of a
\* break compiled inside it
C9_Witness ==
    /\ IsLoopControl("break")
    /\ Len(OpenLoops) = 1
    /\ Innermost.start = start_label_of(1)
    /\ counters.loop = 2
    /\ Cardinality({i \in DOMAIN body : body[i] = Jump(end_label_of(2))}) = 2
    /\ Appended = <<Jump(end_label_of(1))>>

----------------------------------------------------------------------------
(* src/llpy16/: the Context based compiler.                                *)
(*                                                                         *)
(* Its handlers raise on every error and Compiler.handle_Call lowers the   *)
(* stored body of a deferred function from inside the call, so the walk    *)
(* is modelled with the explicit stack `todo` of what the running          *)
(* handlers still have to do, the innermost first.                         *)

\* depth of nested write_function calls at which the Python interpreter
\* gives up with "maximum recursion depth exceeded"
RecursionLimit == 3
\* statements of the top-level module
MaxTop == 3

\* Context._sep
sep == <<US, US>>

\* llpy16/assembler.py hexify of an int or of a str
hexify(thing) == IF thing.isint THEN Hex4(thing.n) ELSE thing.s
IntArg(n) == [isint |-> TRUE, n |-> n, s |-> <<>>]
StrArg(s) == [isint |-> FALSE, n |-> 0, s |-> s]

\* Assembler.write_instruction of llpy16/assembler.py
Ins2(op, args) == [op |-> op, args |-> [i \in DOMAIN args |-> hexify(args[i])]]

\* Context.expand_name for the current namespace ns (the bits of its dotted name)
expand_name(ns, name) == JoinText(sep, ns) \o sep \o name

\* the files of the search paths: for a module name whether a .py extension
\* module exists, whether it names an init hook (LLPY16_INIT), and the
\* statements of its .llpy16 source (has_ll says whether that file exists)
CtxAssign(reg, n) == [k |-> "Assign", target |-> Name(reg), value |-> Num(n)]
CtxCall(fname) == [k |-> "Call", func |-> Name(fname), args |-> <<>>]
\* import <name>: one module name without dots
CtxImport(name) == [k |-> "Import", name |-> name, bits |-> <<Id(name)>>]
CtxFunctionDef(name, fbody, decorators) ==
    [k |-> "FunctionDef", name |-> name, args |-> <<>>, body |-> fbody,
     decorators |-> decorators]

\* def f(): f()   def g(): import drv   @d def f(): f()
DefF == CtxFunctionDef(Id("f"), <<CtxCall(Id("f"))>>, 0)
DefG == CtxFunctionDef(Id("g"), <<CtxImport("drv")>>, 0)
DefDecorated == CtxFunctionDef(Id("f"), <<CtxCall(Id("f"))>>, 1)

Files ==
    [lib |-> [has_py |-> TRUE, has_init |-> TRUE, has_ll |-> TRUE, source |-> <<DefG>>],
     drv |-> [has_py |-> TRUE, has_init |-> TRUE, has_ll |-> FALSE, source |-> <<>>],
     nope |-> [has_py |-> FALSE, has_init |-> FALSE, has_ll |-> FALSE, source |-> <<>>]]

\* the statements a top-level module is made of
CtxNodes == {CtxImport("lib"), CtxImport("drv"), CtxImport("nope"),
             DefF, DefG, DefDecorated,
             CtxCall(Id("f")), CtxCall(Id("g")),
             CtxAssign(Id("A"), 1)}

ModuleNames == DOMAIN Files

FunctionNames == {Id("f"), Id("g")}

\* Assembler.halt_label
halt_label == <<US, US, "halt">>

\* llpy16 Assembler.__init__: the halt label with its jump
CtxInit ==
    /\ ctx_modules = <<>>
    /\ ctx_functions = <<>>
    /\ ctx_namespaces = [ns \in {<<>>} |-> <<>>]
    /\ ctx_current_namespace = <<>>
    /\ asm_body = <<>>
    /\ asm_labels = <<<<LabelLine(halt_label),
                        Ins2("SET", <<StrArg(PC), StrArg(halt_label)>>)>>>>
    /\ asm_open = <<>>
    /\ todo = <<>>
    /\ cpc = "run"
    /\ fed = 0
    /\ init_calls = [m \in ModuleNames |-> 0]
    /\ compiled = [m \in ModuleNames |-> 0]
    /\ lowered = [f \in FunctionNames |-> 0]

Stmt(node) == [w |-> "stmt", node |-> node, fid |-> 0, ns |-> <<>>]
StmtsOf(nodes) == [i \in DOMAIN nodes |-> Stmt(nodes[i])]

\* the node handle() is called with next
HasNode(k) == cpc = "run" /\ todo # <<>> /\ todo[1].w = "stmt" /\ todo[1].node.k = k
Node == todo[1].node

CtxRaise == /\ cpc' = "raised"
            /\ todo' = <<>>

\* the stack compiler's state: src/compiler.py does not run
Idle == UNCHANGED <<mvars, xvars, gvars>>

\* name in self._modules
already_imported(name) == name \in Range(ctx_modules)

\* find_import(name): what it returns or raises, and whether it runs the hook
find_import(name) ==
    LET f == Files[name]
    IN  IF already_imported(name) THEN [exc |-> "none", source |-> <<>>, hook |-> FALSE, has |-> FALSE]
        ELSE IF ~f.has_py /\ ~f.has_ll
             THEN [exc |-> "ImportError", source |-> <<>>, hook |-> FALSE, has |-> FALSE]
        ELSE [exc |-> "none", source |-> f.source, hook |-> f.has_py /\ f.has_init,
              has |-> f.has_ll]

\* the functions dict of a namespace (Context._namespaces is a defaultdict)
functions_of(ns) == IF ns \in DOMAIN ctx_namespaces THEN ctx_namespaces[ns] ELSE <<>>

\* append lines to self._current
CtxWrite(lines) ==
    IF asm_open = <<>> THEN /\ asm_body' = asm_body \o lines
                            /\ UNCHANGED asm_open
    ELSE /\ asm_open' = [asm_open EXCEPT ![Len(asm_open)] = @ \o lines]
         /\ UNCHANGED asm_body

\* handle_Module: the next child of the top-level module
CtxFeed == \E node \in CtxNodes :
    /\ cpc = "run"
    /\ todo = <<>>
    /\ fed < MaxTop
    /\ Idle
    /\ todo' = <<Stmt(node)>>
    /\ fed' = fed + 1
    /\ UNCHANGED <<ctx_modules, ctx_functions, ctx_namespaces, ctx_current_namespace,
                   asm_body, asm_labels, asm_open, cpc, init_calls, compiled, lowered>>

\* Compiler.handle_Import of one alias: find_import, then the source is
\* compiled inside `with self.context.namespace(name)`
CtxHandleImport ==
    /\ HasNode("Import")
    /\ Idle
    /\ LET r == find_import(Node.name)
           compiles == r.has /\ r.source # <<>>
       IN  /\ init_calls' = IF r.hook THEN [init_calls EXCEPT ![Node.name] = @ + 1]
                            ELSE init_calls
           /\ IF r.exc # "none" THEN /\ CtxRaise
                                     /\ UNCHANGED <<compiled, ctx_current_namespace>>
              ELSE IF compiles
              THEN /\ compiled' = [compiled EXCEPT ![Node.name] = @ + 1]
                   /\ ctx_current_namespace' = Node.bits
                   /\ todo' = StmtsOf(r.source)
                              \o <<[w |-> "end_namespace", node |-> Node, fid |-> 0,
                                    ns |-> ctx_current_namespace]>>
                              \o Tail(todo)
                   /\ UNCHANGED cpc
              ELSE /\ todo' = Tail(todo)
                   /\ UNCHANGED <<cpc, compiled, ctx_current_namespace>>
    /\ UNCHANGED <<ctx_modules, ctx_functions, ctx_namespaces, asm_body, asm_labels,
                   asm_open, fed, lowered>>

\* the finally of Context.namespace
CtxEndNamespace ==
    /\ cpc = "run" /\ todo # <<>> /\ todo[1].w = "end_namespace"
    /\ Idle
    /\ ctx_current_namespace' = todo[1].ns
    /\ todo' = Tail(todo)
    /\ UNCHANGED <<ctx_modules, ctx_functions, ctx_namespaces, asm_body, asm_labels,
                   asm_open, cpc, fed, init_calls, compiled, lowered>>

\* Context.define_function: a new Function(expanded_name, args, node, deferred)
\* becomes the namespace's function of that name
NewFunction(node) ==
    [name |-> expand_name(ctx_current_namespace, node.name), bare |-> node.name,
     args |-> node.args, body |-> node.body, deferred |-> TRUE]

\* Compiler.handle_FunctionDef.  define_function returns the expanded name, a
\* str: with a decorator write_function is handed that str and function.name
\* raises AttributeError.
CtxHandleFunctionDef ==
    /\ HasNode("FunctionDef")
    /\ Idle
    /\ LET fid == Len(ctx_functions) + 1
           fns == functions_of(ctx_current_namespace)
       IN  /\ ctx_functions' = Append(ctx_functions, NewFunction(Node))
           /\ ctx_namespaces' =
                [ns \in DOMAIN ctx_namespaces \cup {ctx_current_namespace} |->
                    IF ns = ctx_current_namespace
                    THEN [n \in DOMAIN fns \cup {Node.name} |->
                            IF n = Node.name THEN fid ELSE fns[n]]
                    ELSE ctx_namespaces[ns]]
    /\ IF Node.decorators > 0 THEN CtxRaise
       ELSE todo' = Tail(todo) /\ UNCHANGED cpc
    /\ UNCHANGED <<ctx_modules, ctx_current_namespace, asm_body, asm_labels, asm_open,
                   fed, init_calls, compiled, lowered>>

\* write_function calls running: each has its `with self.assembler.label`
Depth == Len(asm_open)

\* the test of handle_Call that decides whether the body is lowered now
must_lower(function) == function.deferred

\* Compiler.handle_Call: resolve_function, the SETs of the arguments, the JSR,
\* and for a deferred function write_function up to the function's body
CtxHandleCall ==
    /\ HasNode("Call")
    /\ Idle
    /\ LET fns == functions_of(ctx_current_namespace)
           known == Node.func.id \in DOMAIN fns
           fid == fns[Node.func.id]
           function == ctx_functions[fid]
           n == IF Len(Node.args) < Len(function.args) THEN Len(Node.args)
                ELSE Len(function.args)
           call == [i \in 1..n |->
                       Ins2("SET", <<StrArg(function.args[i]),
                                     IF Node.args[i].t = "Num" THEN IntArg(Node.args[i].n)
                                     ELSE StrArg(Node.args[i].id)>>)]
                   \o <<Ins2("JSR", <<StrArg(function.name)>>)>>
       IN  IF ~known THEN
                \* get_extension and get_function raise KeyError: NameError
                /\ CtxRaise
                /\ UNCHANGED <<asm_body, asm_open, lowered>>
           ELSE IF ~must_lower(function) THEN
                /\ CtxWrite(call)
                /\ todo' = Tail(todo)
                /\ UNCHANGED <<cpc, lowered>>
           ELSE IF Depth >= RecursionLimit THEN
                \* RuntimeError: maximum recursion depth exceeded
                /\ CtxRaise
                /\ UNCHANGED <<asm_body, asm_open, lowered>>
           ELSE
                /\ lowered' = [lowered EXCEPT ![function.bare] = @ + 1]
                /\ IF asm_open = <<>>
                   THEN /\ asm_body' = asm_body \o call
                        /\ asm_open' = <<<<LabelLine(function.name)>>>>
                   ELSE /\ asm_open' = Append([asm_open EXCEPT ![Len(asm_open)] = @ \o call],
                                              <<LabelLine(function.name)>>)
                        /\ UNCHANGED asm_body
                /\ todo' = StmtsOf(function.body)
                           \o <<[w |-> "end_function", node |-> Node, fid |-> fid, ns |-> <<>>]>>
                           \o Tail(todo)
                /\ UNCHANGED cpc
    /\ UNCHANGED <<ctx_modules, ctx_functions, ctx_namespaces, ctx_current_namespace,
                   asm_labels, fed, init_calls, compiled>>

\* the rest of write_function and of handle_Call after the body is lowered:
\* return_from_subroutine, the label body joins _labels, _current is
\* restored, and then function.deferred = False
CtxEndFunction ==
    /\ cpc = "run" /\ todo # <<>> /\ todo[1].w = "end_function"
    /\ Idle
    /\ asm_labels' = Append(asm_labels,
            Append(asm_open[Len(asm_open)], Ins2("SET", <<StrArg(PC), StrArg(POP)>>)))
    /\ asm_open' = SubSeq(asm_open, 1, Len(asm_open) - 1)
    /\ ctx_functions' = [ctx_functions EXCEPT ![todo[1].fid].deferred = FALSE]
    /\ todo' = Tail(todo)
    /\ UNCHANGED <<ctx_modules, ctx_namespaces, ctx_current_namespace, asm_body, cpc,
                   fed, init_calls, compiled, lowered>>

\* Compiler.handle_Assign: get_register reads assembler.registers, which the
\* Assembler of llpy16/assembler.py does not have: AttributeError (a target
\* that is no Name raises CompilerError before)
CtxHandleAssign ==
    /\ HasNode("Assign")
    /\ Idle
    /\ CtxRaise
    /\ UNCHANGED <<ctx_modules, ctx_functions, ctx_namespaces, ctx_current_namespace,
                   asm_body, asm_labels, asm_open, fed, init_calls, compiled, lowered>>

\* do_compile: compile returned, the program is written out
CtxFinish ==
    /\ cpc = "run"
    /\ todo = <<>>
    /\ Idle
    /\ cpc' = "done"
    /\ UNCHANGED <<ctx_modules, ctx_functions, ctx_namespaces, ctx_current_namespace,
                   asm_body, asm_labels, asm_open, todo, fed, init_calls, compiled, lowered>>

CtxNext ==
    \/ CtxFeed
    \/ CtxHandleImport
    \/ CtxEndNamespace
    \/ CtxHandleFunctionDef
    \/ CtxHandleCall
    \/ CtxEndFunction
    \/ CtxHandleAssign
    \/ CtxFinish

\* nothing to mangle
NamesIdle ==
    /\ query = <<>>
    /\ mangled = <<>>

\* no program loaded
MachineIdle ==
    /\ prog = <<>>
    /\ regs = <<>>
    /\ stack = <<>>
    /\ ip = 0
    /\ calls = <<>>
    /\ prev = 0

\* no call of an extension
NoMacroCall == [namespace |-> <<>>, func |-> Other, args |-> <<>>, keywords |-> <<>>]
NotPassed == [called |-> FALSE, exc |-> "none", args |-> <<>>, kwargs |-> <<>>]
ArgsIdle ==
    /\ macro_call = NoMacroCall
    /\ passed = NotPassed

Init == MainInit /\ CtxInit /\ NamesIdle /\ MachineIdle /\ ArgsIdle

\* a run of src/compiler.py
Spec == Init /\ [][Next]_vars

\* do_compile of src/llpy16: one source, no family of programs to draw
CtxRunInit == Init /\ family = "base"

\* a run of src/llpy16/compiler.py
SpecCtx == CtxRunInit /\ [][CtxNext]_vars

----------------------------------------------------------------------------
(* Properties of src/llpy16/                                               *)

\* C3: within one compilation each import name is resolved at most once: the
\* module's source is compiled once and its init hook is invoked once,
\* however often the name is imported.
C3_ImportOnce == \A m \in ModuleNames : compiled[m] <= 1 /\ init_calls[m] <= 1

\* C10: write_function lowers the body of each function at most once, for any
\* sequence of definitions and calls, and the compilation ends.
C10_LoweredOnce == \A f \in FunctionNames : lowered[f] <= 1

----------------------------------------------------------------------------
(* The halt trap.                                                          *)

\* the label of a subroutine: a label line that is neither the halt label
\* nor a loop label
IsFunctionLabel(line) ==
    /\ IsLabel(line)
    /\ line # LabelLine(Builtin("halt"))
    /\ line.args[1][Len(line.args[1])] \notin {"start", "end"}

\* the places of a text where the halt trap stands: the label halt followed
\* by the jump to it
TrapsIn(text, label, jump) ==
    {i \in 1..(Len(text) - 1) : text[i] = label /\ text[i + 1] = jump}

RECURSIVE CtxAssembled(_)
\* llpy16 Assembler.get_assembled from the i-th label on, without the empty
\* separator lines
CtxAssembled(i) ==
    IF i > Len(asm_labels) THEN <<>> ELSE asm_labels[i] \o CtxAssembled(i + 1)

CtxJumpHalt == Ins2("SET", <<StrArg(PC), StrArg(halt_label)>>)

\* C11: the assembled text is the body segment followed by the footer segment;
\* the halt trap (the halt label and the jump to it) stands in it exactly
\* once, the first thing after the last line of the main body leads into it,
\* and every subroutine stands after it, however many were emitted.
C11_HaltTrap ==
    /\ Assembled = body \o footer
    /\ Cardinality(TrapsIn(Assembled, LabelLine(Builtin("halt")), Jump(Builtin("halt")))) = 1
    /\ Len(footer) >= 3
    /\ SubSeq(footer, 1, 3) = <<Jump(Builtin("halt")), LabelLine(Builtin("halt")),
                                Jump(Builtin("halt"))>>
    /\ \A i \in DOMAIN body : ~IsFunctionLabel(body[i])
    /\ Cardinality(TrapsIn(asm_body \o CtxAssembled(1), LabelLine(halt_label), CtxJumpHalt)) = 1
    /\ asm_labels[1] = <<LabelLine(halt_label), CtxJumpHalt>>

\* a finished compilation that emitted a subroutine after the trap and has
\* lines in the main body
C11_Witness ==
    /\ pc = "done"
    /\ body # <<>>
    /\ \E i \in 4..Len(footer) : IsFunctionLabel(footer[i])

----------------------------------------------------------------------------
(* Assignments.                                                            *)

\* the last statement assigned to one physical register
IsRegisterTarget ==
    /\ last.kind = "Assign"
    /\ ~last.node.is_call
    /\ Len(last.node.targets) = 1
    /\ last.node.targets[1].t = "Name"
    /\ last.node.targets[1].id \in Range(REGISTERS)

\* C12: the assignment of a numeric literal n to a physical register R emits
\* exactly `SET R, 0x` and the four hexadecimal digits of n, the assignment of
\* a register S to R exactly `SET R, S`.
C12_AssignRendering ==
    IsRegisterTarget =>
        /\ last.node.value.t = "Num" =>
              Appended = <<Ins("SET", <<last.node.targets[1].id, Hex4(last.node.value.n)>>)>>
        /\ (last.node.value.t = "Name" /\ last.node.value.id \in Range(REGISTERS)) =>
              Appended = <<Ins("SET", <<last.node.targets[1].id, last.node.value.id>>)>>

----------------------------------------------------------------------------
(* Return-value counts.                                                    *)

\* the numbers of values the return statements of the function body just
\* lowered push
ReturnCounts ==
    {Len(last.node.children[i].node.elts) :
        i \in {j \in DOMAIN last.node.children : last.node.children[j].kind = "Return"}}

\* C15: a function body whose return statements push different numbers of
\* values is rejected with a hard error; the return-value count of the
\* signature is the number of values every return statement of the body pushes.
C15_DivergentReturns ==
    (last.kind = "EndFunctionDef" /\ pc = "run") =>
        /\ Cardinality(ReturnCounts) > 1 => Cur.failed
        /\ ~Cur.failed =>
              \A n \in ReturnCounts :
                  get_func_sig(Asm, Mangle(last.a, last.node.name)).num_ret_values = n

----------------------------------------------------------------------------
(* The loop-context stack and the local aliases.                           *)

\* the while loops and the function definitions whose body is being lowered
OpenWhiles == {i \in DOMAIN frames : frames[i].kind = "While"}
OpenFunctionDefs == {i \in DOMAIN frames : frames[i].kind = "FunctionDef"}

\* the last statement was a break or continue outside every loop
IsLoopControlOutside ==
    /\ last.kind = "Expr"
    /\ last.node.is_call
    /\ LastCall.func \in {Name(Builtin("break")), Name(Builtin("continue"))}
    /\ last.a.loopstack = <<>>

\* the loop stack is as deep as while bodies are being lowered and aliases
\* are bound only inside a function body
LoopsAndAliasesUnwound ==
    /\ Len(loopstack) = Cardinality(OpenWhiles)
    /\ local_aliases # <<>> => OpenFunctionDefs # {}

\* C16: at every point the depth of the loop-context stack is the number of
\* while loops whose body is being lowered and the local aliases are bound
\* only while a function body is being lowered, also after an exit caused by
\* an error inside the body; a break/continue outside every loop reports a
\* hard error and leaves the stack alone.
C16_Unwound ==
    /\ LoopsAndAliasesUnwound
    /\ IsLoopControlOutside =>
          pc = "run" /\ Cur.failed /\ loopstack = <<>> /\ NothingEmitted

\* the same, as long as no handler raised
C16_UnwoundWhileRunning == pc = "run" => C16_Unwound

----------------------------------------------------------------------------
(* Rejected statements.                                                    *)

\* the last statement was an assignment, a call or a while loop that its
\* handler rejected with the first hard error of the compilation
IsRejected ==
    /\ last.kind \in {"Assign", "AugAssign", "Expr", "While"}
    /\ pc = "run"
    /\ ~last.entered
    /\ ~last.c.failed
    /\ Cur.failed

\* C17: a statement rejected with a hard error (a value, an argument, an
\* operand or a target that does not resolve) adds no line to either segment.
C17_RejectedEmitsNothing == IsRejected => NothingEmitted

----------------------------------------------------------------------------
(* Recursion.                                                              *)

\* the last statement is a call, inside the body of a function definition,
\* of the function being defined, with as many arguments as it has parameters
IsSelfCall ==
    /\ last.kind = "Expr"
    /\ last.node.is_call
    /\ resolve_func_call_name(LastCall.func).exc = "none"
    /\ frames # <<>>
    /\ Top.kind = "FunctionDef"
    /\ Top.name = LastCallName
    /\ Len(Top.node.args) = Len(LastCall.args)
    /\ ArgsResolve

\* C20: a function is registered before its body is lowered: a call of f
\* inside the body of f, with the right number of arguments, emits the pushes
\* and the JSR to f and is not reported as a call of an undefined function.
C20_RecursionResolves ==
    IsSelfCall =>
        /\ pc = "run"
        /\ Cur.failed = last.c.failed
        /\ Appended = CallSequence

----------------------------------------------------------------------------
(* Name mangling.                                                          *)

\* namespace paths and bare names; a module name and a function name are
\* Python identifiers and may contain underscores
Paths == {<<>>, <<Id("a")>>, <<Id("a"), Id("b")>>, <<<<"a", US, "b">>>>}
BareNames == {Id("c"), <<"b", US, "c">>, <<"b", US, US, "c">>, Id("f")}

\* the assembler while a function of the module `path` is compiled
InNamespace(path) ==
    [AssemblerInit EXCEPT !.current_namespace = path, !.current = "footer"]

\* the text of the label line write_label writes for name in namespace path
LabelOf(path, name) ==
    LET a == write_label(InNamespace(path), name)
    IN  a.footer[Len(a.footer)].args[1]

\* the key define_function registers the signature of name under
KeyOf(path, name) ==
    LET a == define_function(InNamespace(path), name, NewSig(0))
    IN  CHOOSE k \in DOMAIN a.func_sigs : TRUE

NamesInit ==
    /\ MainInit /\ family = "base"
    /\ CtxInit
    /\ MachineIdle
    /\ ArgsIdle
    /\ query \in Paths \X BareNames \X Paths \X BareNames
    /\ mangled = <<>>

\* both pairs are mangled: by write_label, by define_function, by expand_name
MangleNames ==
    /\ query # <<>>
    /\ mangled = <<>>
    /\ mangled' = <<LabelOf(query[1], query[2]), LabelOf(query[3], query[4]),
                    KeyOf(query[1], query[2]), KeyOf(query[3], query[4]),
                    expand_name(query[1], query[2]), expand_name(query[3], query[4])>>
    /\ UNCHANGED <<mvars, cvars, query, prog, regs, stack, ip, calls, prev, gvars>>

\* the name mangling of both compilers, applied to pairs of names
SpecNames == NamesInit /\ [][MangleNames]_vars

\* C18: name mangling is injective: two different pairs (namespace path, bare
\* name) never get the same label, signature-table key or expanded name.
C18_MangleInjective ==
    (mangled # <<>> /\ <<query[1], query[2]>> # <<query[3], query[4]>>) =>
        /\ mangled[1] # mangled[2]
        /\ mangled[3] # mangled[4]
        /\ mangled[5] # mangled[6]

----------------------------------------------------------------------------
(* Running the assembly src/compiler.py writes.  The source of a program   *)
(* is lowered statement by statement by the handlers above; then the lines *)
(* of the assembled text are executed one at a time with the meaning the   *)
(* compiler relies on: SET a, b stores b in a, PUSH / POP work on the      *)
(* stack, JSR pushes the address of the next line and jumps, IFE / IFN /   *)
(* IFG a, b let the next line execute only when a = b / a # b / a > b.     *)

\* a statement of a source: its class, its node and the depth of its
\* indentation
At(depth, kind, node) == [depth |-> depth, kind |-> kind, node |-> node]

\* the formal parameter names of the programs, and parameter lists that
\* carry the names of registers
ParamNames == <<Id("x"), Id("y"), Id("z"), Id("u"), Id("v"), Id("w"), Id("t")>>
ParamLists == {SubSeq(ParamNames, 1, k) : k \in {0, 1, 2, 3, 7}}
                  \cup {<<Id("B"), Id("A")>>, <<Id("J")>>}

RECURSIVE NamesOf(_)
NamesOf(ids) == IF Len(ids) = 0 THEN <<>> ELSE <<Name(ids[1])>> \o NamesOf(Tail(ids))

\* def f(p1, .., pk):
\*     return p1, .., pk        (return A when k = 0)
\* f(base + 1, .., base + k)
CallProgram(params, base) ==
    <<At(0, "FunctionDef", FunctionDefNode(Id("f"), params)),
      At(1, "Return", IF Len(params) = 0 THEN ReturnNode("Name", <<rA>>)
                      ELSE ReturnNode("Tuple", NamesOf(params))),
      At(0, "Expr", ExprNode(Call(fn_f, [i \in 1..Len(params) |-> Num(base + i)])))>>

\* def g():
\*     return A
\* def f():
\*     g()
\* f()
NestedProgram ==
    <<At(0, "FunctionDef", FunctionDefNode(Id("g"), <<>>)),
      At(1, "Return", ReturnNode("Name", <<rA>>)),
      At(0, "FunctionDef", FunctionDefNode(Id("f"), <<>>)),
      At(1, "Expr", ExprNode(Call(Name(Id("g")), <<>>))),
      At(0, "Expr", ExprNode(Call(fn_f, <<>>)))>>

\* while A op right:
\*     C = B
WhileProgram(op, right) ==
    <<At(0, "While", WhileNode(rA, op, right)),
      At(1, "Assign", AssignNode(<<rC>>, rB))>>

\* the programs that are run: the call programs, the nested call and the
\* four while tests against a register and against a literal
WhileOps == {"NotEq", "Eq", "Gt", "Lt"}
ArgBases == {10, 20}
Programs ==
    {[kind |-> "call", params |-> p, op |-> "", right |-> Other,
      source |-> CallProgram(p, b)] : p \in ParamLists, b \in ArgBases}
    \cup {[kind |-> "nested", params |-> <<>>, op |-> "", right |-> Other,
           source |-> NestedProgram]}
    \cup {[kind |-> "while", params |-> <<>>, op |-> o, right |-> r,
           source |-> WhileProgram(o, r)] : o \in WhileOps, r \in {rB, Num(1)}}

\* the machine's words are 16 bits wide
Word == 65536
\* the values registers A and B hold when a program starts
InitialValues == {0, 1, Word - 1}

\* a call in progress: the function, the address JSR pushed, the depth of
\* the stack before the call site pushed the arguments, the argument values,
\* and whether the function has called another one since
NoCall == [fn |-> <<>>, ret |-> 0, depth |-> 0, args |-> <<>>, nested |-> FALSE]

\* ip = Fault: the machine is not running (not started, or stopped on an
\* undefined label or an empty stack)
Fault == 0

\* main() with the source of a program: a new Compiler, the machine stopped
RunInit ==
    /\ MainInit /\ family = "base"
    /\ CtxInit
    /\ NamesIdle
    /\ ArgsIdle
    /\ prog \in Programs
    /\ regs \in {[r \in Range(REGISTERS) |->
                     IF r = Id("A") THEN va ELSE IF r = Id("B") THEN vb ELSE 0] :
                 va \in InitialValues, vb \in InitialValues}
    /\ stack = <<>>
    /\ ip = Fault
    /\ calls = <<>>
    /\ prev = [ip |-> 0, line |-> LabelLine(<<>>), frame |-> NoCall]

\* the next statement of the source
NextStmt == prog.source[nstmts + 1]
\* the next statement is a child of the body being lowered
CanLoad(kind) ==
    /\ pc = "run"
    /\ nstmts < Len(prog.source)
    /\ NextStmt.depth = Len(frames)
    /\ NextStmt.kind = kind
\* the body being lowered has no more children
BodyEnds ==
    /\ pc = "run"
    /\ Len(frames) > 0
    /\ IF nstmts = Len(prog.source) THEN TRUE ELSE NextStmt.depth < Len(frames)

LoadExpr ==
    /\ CanLoad("Expr")
    /\ Simple("Expr", NextStmt.node, handle_Expr(Asm, Cur, NextStmt.node))

LoadAssign ==
    /\ CanLoad("Assign")
    /\ Simple("Assign", NextStmt.node, handle_Assign(Asm, Cur, NextStmt.node))

LoadReturn ==
    /\ CanLoad("Return")
    /\ Simple("Return", NextStmt.node, handle_Return(Asm, Cur, NextStmt.node))

LoadWhile ==
    /\ CanLoad("While")
    /\ LET r == handle_While_enter(Asm, Cur, NextStmt.node)
       IN  /\ Handled("While", NextStmt.node, r, r.entered)
           /\ frames' = Unwound(Push("While", NextStmt.node,
                            [NoFrame EXCEPT !.start = r.start, !.end = r.end], r.entered))
    /\ nstmts' = nstmts + 1

LoadFunctionDef ==
    /\ CanLoad("FunctionDef")
    /\ LET r == handle_FunctionDef_enter(Asm, Cur, NextStmt.node)
       IN  /\ Handled("FunctionDef", NextStmt.node, Ret(r.a, r.c), r.entered)
           /\ frames' = Push("FunctionDef", NextStmt.node,
                            [NoFrame EXCEPT !.name = NextStmt.node.name,
                                            !.old_current = current,
                                            !.old_aliases = local_aliases], r.entered)
    /\ nstmts' = nstmts + 1

LoadEndWhile == BodyEnds /\ EndWhile

LoadEndFunctionDef == BodyEnds /\ EndFunctionDef

\* main(): compile returned True, the assembled text is written out; the
\* machine starts at its first line
Start ==
    /\ pc = "run"
    /\ frames = <<>>
    /\ nstmts = Len(prog.source)
    /\ success
    /\ pc' = "done"
    /\ ip' = 1
    /\ UNCHANGED <<avars, compilers, frames, nstmts, family, last, cvars,
                   query, mangled, prog, regs, stack, calls, prev, gvars>>


RECURSIVE ParseDec(_)
\* the number a decimal literal of the assembly denotes
ParseDec(text) ==
    IF Len(text) = 0 THEN 0
    ELSE ParseDec(SubSeq(text, 1, Len(text) - 1)) * 10 + Index(Digits, text[Len(text)])

Line == Assembled[ip]
Running == pc = "done" /\ ip \in 1..Len(Assembled)
\* the value an operand reads: a register or a literal
Value(x) == IF x \in Range(REGISTERS) THEN regs[x] ELSE ParseDec(x) % Word
\* the lines a label names
Targets(label) == {i \in DOMAIN Assembled : Assembled[i] = LabelLine(label)}
\* the lines a jump to the label can reach: Fault when the label is undefined
JumpTo(label) == IF Targets(label) = {} THEN {Fault} ELSE Targets(label)

Executed(frame) ==
    /\ prev' = [ip |-> ip, line |-> Line, frame |-> frame]
    /\ UNCHANGED <<mvars, cvars, query, mangled, prog, gvars>>

\* a label line: nothing to execute
ExecLabel ==
    /\ Running
    /\ IsLabel(Line)
    /\ ip' = ip + 1
    /\ Executed(NoCall)
    /\ UNCHANGED <<regs, stack, calls>>

\* SET a, b with a register or PUSH as a and a register, literal or POP as b
ExecSet ==
    /\ Running
    /\ Line.op = "SET"
    /\ Line.args[1] # PC
    /\ LET a == Line.args[1]
           b == Line.args[2]
           underflow == b = POP /\ Len(stack) = 0
           v == IF b = POP THEN stack[Len(stack)] ELSE Value(b)
           s1 == IF b = POP THEN SubSeq(stack, 1, Len(stack) - 1) ELSE stack
       IN  IF underflow THEN ip' = Fault /\ UNCHANGED <<regs, stack>>
           ELSE /\ ip' = ip + 1
                /\ stack' = IF a = PUSH THEN Append(s1, v) ELSE s1
                /\ regs' = IF a = PUSH THEN regs ELSE [regs EXCEPT ![a] = v]
    /\ Executed(NoCall)
    /\ UNCHANGED calls

\* SET PC, label and SET PC, J; the jump through J ends the call in progress
ExecJump ==
    /\ Running
    /\ Line.op = "SET"
    /\ Line.args[1] = PC
    /\ LET x == Line.args[2]
           through == x \in Range(REGISTERS)
       IN  /\ ip' \in IF through THEN {regs[x]} ELSE JumpTo(x)
           /\ calls' = IF through /\ Len(calls) > 0
                       THEN SubSeq(calls, 1, Len(calls) - 1) ELSE calls
           /\ Executed(IF through /\ Len(calls) > 0 THEN calls[Len(calls)] ELSE NoCall)
    /\ UNCHANGED <<regs, stack>>

\* JSR label: push the address of the next line, jump to the label
ExecJsr ==
    /\ Running
    /\ Line.op = "JSR"
    /\ LET fn == Line.args[1]
           k == func_sigs[fn].num_args
           frame == [fn |-> fn, ret |-> ip + 1, depth |-> Len(stack) - k,
                     args |-> SubSeq(stack, Len(stack) - k + 1, Len(stack)),
                     nested |-> FALSE]
           outer == IF Len(calls) = 0 THEN calls
                    ELSE [calls EXCEPT ![Len(calls)].nested = TRUE]
       IN  /\ ip' \in JumpTo(fn)
           /\ stack' = Append(stack, ip + 1)
           /\ calls' = Append(outer, frame)
           /\ Executed(frame)
    /\ UNCHANGED regs

\* IFE / IFN / IFG a, b: the next line executes only when the condition
\* holds, else it is skipped
ExecIf ==
    /\ Running
    /\ Line.op \in {"IFE", "IFN", "IFG"}
    /\ LET a == Value(Line.args[1])
           b == Value(Line.args[2])
           holds == IF Line.op = "IFE" THEN a = b
                    ELSE IF Line.op = "IFN" THEN a # b
                    ELSE a > b
       IN  ip' = IF holds THEN ip + 1 ELSE ip + 2
    /\ Executed(NoCall)
    /\ UNCHANGED <<regs, stack, calls>>

RunNext ==
    \/ LoadExpr
    \/ LoadAssign
    \/ LoadReturn
    \/ LoadWhile
    \/ LoadFunctionDef
    \/ LoadEndWhile
    \/ LoadEndFunctionDef
    \/ Start
    \/ ExecLabel
    \/ ExecSet
    \/ ExecJump
    \/ ExecJsr
    \/ ExecIf

\* the source of a program is compiled by src/compiler.py, then the
\* assembled text is run
SpecRun == RunInit /\ [][RunNext]_vars


\* the source test `l op r`
SourceTest(op, l, r) ==
    IF op = "NotEq" THEN l # r
    ELSE IF op = "Eq" THEN l = r
    ELSE IF op = "Gt" THEN l > r
    ELSE l < r

\* the last line executed is the compare-and-skip of the while test
TestExecuted == prog.kind = "while" /\ prev.line.op \in {"IFE", "IFN", "IFG"}
\* the operands of the source test: register A and the right operand
LeftValue == regs[Id("A")]
RightValue == IF prog.right.t = "Num" THEN prog.right.n ELSE regs[prog.right.id]

\* C14: for each of the four while tests `l op r` and all operand values the
\* compare-and-skip instruction lets the jump to the loop end (the next
\* line) execute exactly when the source test is false, so that the body
\* runs exactly when the test is true, also when l equals r.
C14_WhileTest ==
    TestExecuted =>
        ((ip = prev.ip + 1) <=> ~SourceTest(prog.op, LeftValue, RightValue))

\* the last line executed is the epilogue of a function that has called
\* another function
NestedEpilogue ==
    /\ prev.line = Jump(Id("J"))
    /\ prev.frame.nested

\* C13: when the body of f has called another function and f reaches its
\* epilogue, control returns to the line after the call site that invoked
\* f, and the stack has the depth from before the call site pushed its
\* arguments plus the return values of f.
C13_NestedReturn ==
    NestedEpilogue =>
        /\ ip = prev.frame.ret
        /\ Len(stack) = prev.frame.depth + func_sigs[prev.frame.fn].num_ret_values

\* the line of the label of f, and the first line of the body of f (after
\* the pop of the return address and the pops of the parameters)
LabelOfF == CHOOSE i \in DOMAIN Assembled : Assembled[i] = LabelLine(Id("f"))
AtBodyEntry ==
    /\ prog.kind = "call"
    /\ pc = "done"
    /\ Len(calls) > 0
    /\ ip = LabelOfF + 2 + Len(prog.params)
\* the body of f is being lowered
InBodyOfF ==
    /\ prog.kind = "call"
    /\ pc = "run"
    /\ Len(frames) > 0
    /\ Top.kind = "FunctionDef"

\* C19: for a function with k <= 7 parameters called with a1..ak, on entry to
\* the body the value of ai is in the i-th register of A, B, C, X, Y, Z, I,
\* the return address is in J and the stack is at its depth from before the
\* call site; inside the body the name pi resolves to the i-th register,
\* and J is never bound to a parameter.
C19_Prologue ==
    /\ AtBodyEntry =>
           LET fr == calls[Len(calls)]
           IN  /\ \A i \in 1..Len(prog.params) : regs[REGISTERS[i]] = fr.args[i]
               /\ regs[Id("J")] = fr.ret
               /\ Len(stack) = fr.depth
    /\ InBodyOfF =>
           \A i \in 1..Len(prog.params) :
               LET r == resolve_nameish(Asm, Name(prog.params[i]))
               IN  /\ r.exc = "none"
                   /\ r.val = REGISTERS[i]
                   /\ r.val # Id("J")


\* no parameter of f carries the name of a register
PlainParams == \A i \in 1..Len(prog.params) : prog.params[i] \notin Range(REGISTERS)
\* the prologue law for the programs whose parameter names are no registers
PrologueForPlainParams == PlainParams => C19_Prologue

----------------------------------------------------------------------------
(* Imports after the namespace of the module exists                        *)

\* an import statement naming a module that no earlier import statement
\* named, and for which _find_source finds a file, has just been handled
FirstImport ==
    /\ last.kind = "Import"
    /\ last.node.bits \notin last.earlier
    /\ find_source(last.node.bits)
    /\ last.exc = "none"

\* C21: the first import statement naming module m compiles m's body
\* whatever happened earlier in the compilation: it is not suppressed when a
\* failed dotted reference m.x or an import of a submodule m.n has created
\* the namespace m before
C21_FirstImportCompiles == FirstImport => last.entered

\* the namespace of the module existed when its first import was handled
\* (has_namespace answered True), and the body was not compiled
C21_ImportSuppressed ==
    /\ FirstImport
    /\ has_namespace(last.a, last.node.bits).val
    /\ ~last.entered

\* ... after a dotted reference that failed to resolve: no import statement
\* at all was handled before
C21_SuppressedByReference == C21_ImportSuppressed /\ last.earlier = {}

\* ... after the import of a submodule
C21_SuppressedBySubmodule ==
    /\ C21_ImportSuppressed
    /\ last.earlier = {ImportSubmodule.bits}
    /\ ~last.c.failed

----------------------------------------------------------------------------
(* src/llpy16/context.py: the arguments of an extension call.              *)
(* Names are written one character per element here, so that Len is the    *)
(* len() of the str; a namespace is the sequence of the bits of its dotted *)
(* name ('' is <<>>).                                                      *)

LowerCase == <<"a", "b", "c", "d", "e", "f", "g", "h", "i", "j", "k", "l", "m",
               "n", "o", "p", "q", "r", "s", "t", "u", "v", "w", "x", "y", "z">>
UpperCase == <<"A", "B", "C", "D", "E", "F", "G", "H", "I", "J", "K", "L", "M",
               "N", "O", "P", "Q", "R", "S", "T", "U", "V", "W", "X", "Y", "Z">>
\* str.upper(): cased characters become upper case, the others stay
upper(name) ==
    [i \in DOMAIN name |-> IF name[i] \in Range(LowerCase)
                           THEN UpperCase[Index(LowerCase, name[i]) + 1]
                           ELSE name[i]]

\* ast nodes of argument syntax besides Num, Name and Attribute
StrNode(s) == [t |-> "Str", n |-> 0, id |-> <<>>, path |-> <<>>, s |-> s]
TupleNode(elts) == [t |-> "Tuple", n |-> 0, id |-> <<>>, path |-> <<>>, elts |-> elts]
ListNode(elts) == [t |-> "List", n |-> 0, id |-> <<>>, path |-> <<>>, elts |-> elts]
DictNode(keys, values) ==
    [t |-> "Dict", n |-> 0, id |-> <<>>, path |-> <<>>, keys |-> keys, values |-> values]
Keyword(arg, value) == [arg |-> arg, value |-> value]

\* the Python values an argument evaluates to: int, str, Register, tuple,
\* list, dict (items: the key/value pairs in insertion order)
Val(t, n, s, items) == [t |-> t, n |-> n, s |-> s, items |-> items]
NumVal(n) == Val("int", n, <<>>, <<>>)
TextVal(s) == Val("str", 0, s, <<>>)
\* class Register: Register(name), self.name = name
Register(name) == Val("Register", 0, name, <<>>)
NoVal == Val("none", 0, <<>>, <<>>)

Got(val) == [exc |-> "none", val |-> val]
Throws(exc) == [exc |-> exc, val |-> NoVal]

\* the first exception of a sequence of evaluations, "none" without one
FirstExc(rs) ==
    IF \A i \in DOMAIN rs : rs[i].exc = "none" THEN "none"
    ELSE rs[CHOOSE i \in DOMAIN rs :
                /\ rs[i].exc # "none"
                /\ \A j \in 1..(i - 1) : rs[j].exc = "none"].exc

\* Namespace.constants and Namespace.extensions of the namespaces, as the
\* extension modules imported so far defined them (find_import)
Constants(namespace) ==
    IF namespace = <<>> THEN (<<"x">> :> NumVal(5)) @@ (<<"_">> :> NumVal(7))
    ELSE IF namespace = <<Id("m")>> THEN (<<"k">> :> TextVal(<<"m", US, US, "d">>))
    ELSE <<>>
Extensions(namespace) ==
    IF namespace \in {<<>>, <<Id("m")>>} THEN {<<"e">>} ELSE {}

\* Context.get_constant(name) inside `with self.namespace(namespace)`
get_constant(namespace, name) ==
    IF name \in DOMAIN Constants(namespace) THEN Got(Constants(namespace)[name])
    ELSE Throws("KeyError")

\* Context._resolve_name(thing) while the current namespace is cur
resolve_name(cur, thing) ==
    IF thing.t = "Name" THEN [exc |-> "none", name |-> thing.id, namespace |-> cur]
    ELSE IF thing.t = "Attribute"
         THEN [exc |-> "none", name |-> thing.id, namespace |-> thing.path]
    ELSE [exc |-> "TypeError", name |-> <<>>, namespace |-> <<>>]

\* a value that dict accepts as a key: list and dict are unhashable
RECURSIVE Hashable(_)
Hashable(val) ==
    /\ val.t \notin {"list", "dict"}
    /\ \A i \in DOMAIN val.items : Hashable(val.items[i])

\* _get_value(thing) of _call_to_args_kwargs while the current namespace
\* is cur.  A dict comprehension of Python 2 evaluates the value of an item
\* before its key; the dicts drawn have one item, no two keys collide.
RECURSIVE get_value(_, _)
get_value(cur, thing) ==
    IF thing.t = "Str" THEN Got(TextVal(thing.s))
    ELSE IF thing.t = "Num" THEN Got(NumVal(thing.n))
    ELSE IF thing.t \in {"Tuple", "List"} THEN
        LET rs == [i \in DOMAIN thing.elts |-> get_value(cur, thing.elts[i])]
        IN  IF FirstExc(rs) # "none" THEN Throws(FirstExc(rs))
            ELSE Got(Val(IF thing.t = "Tuple" THEN "tuple" ELSE "list", 0, <<>>,
                         [i \in DOMAIN rs |-> rs[i].val]))
    ELSE IF thing.t = "Dict" THEN
        LET rs == [i \in 1..(2 * Len(thing.keys)) |->
                      IF i % 2 = 1 THEN get_value(cur, thing.values[(i + 1) \div 2])
                      ELSE get_value(cur, thing.keys[i \div 2])]
        IN  IF FirstExc(rs) # "none" THEN Throws(FirstExc(rs))
            ELSE IF \E i \in DOMAIN thing.keys : ~Hashable(rs[2 * i].val)
                 THEN Throws("TypeError")
            ELSE Got(Val("dict", 0, <<>>,
                         [i \in DOMAIN thing.keys |->
                             Val("item", 0, <<>>, <<rs[2 * i].val, rs[2 * i - 1].val>>)]))
    ELSE
        LET r == resolve_name(cur, thing)
            g == get_constant(r.namespace, r.name)
        IN  IF r.exc # "none" THEN Throws(r.exc)
            ELSE IF r.name = upper(r.name) /\ Len(r.name) = 1 /\ r.namespace = cur
                 THEN Got(Register(r.name))
            ELSE IF g.exc = "KeyError" THEN Throws("NameError")
            ELSE g

\* _call_to_args_kwargs(node): args, then kwargs; [exc, args, kwargs]
call_to_args_kwargs(cur, node) ==
    LET as == [i \in DOMAIN node.args |-> get_value(cur, node.args[i])]
        ks == [i \in DOMAIN node.keywords |-> get_value(cur, node.keywords[i].value)]
    IN  IF FirstExc(as \o ks) # "none"
        THEN [exc |-> FirstExc(as \o ks), args |-> <<>>, kwargs |-> <<>>]
        ELSE [exc |-> "none",
              args |-> [i \in DOMAIN as |-> as[i].val],
              kwargs |-> [i \in DOMAIN ks |->
                             Val("item", 0, <<>>, <<TextVal(node.keywords[i].arg), ks[i].val>>)]]

\* the argument syntax drawn
nQ == Name(<<"Q">>)
nUnderscore == Name(<<US>>)
Things == {Num(1), StrNode(<<"s">>), Other,
           rA, Name(<<"J">>), nQ, nUnderscore,
           Name(<<"x">>), Name(<<"y">>), Name(<<"A", "B">>),
           Attr(<<Id("m")>>, <<"A">>), Attr(<<Id("m")>>, <<"k">>),
           TupleNode(<<nQ, Num(1)>>), ListNode(<<rA>>),
           DictNode(<<StrNode(<<"s">>)>>, <<nQ>>), DictNode(<<ListNode(<<>>)>>, <<Num(1)>>)}
MaxArgs == 2
ArgLists == UNION {[1..k -> Things] : k \in 0..MaxArgs}
KeywordLists == {<<>>, <<Keyword(<<"r">>, Name(<<"Z">>))>>, <<Keyword(<<"r">>, nQ)>>}
\* e(...), m.e(...): extensions;  g(...): neither extension nor function
Callees == {Name(<<"e">>), Attr(<<Id("m")>>, <<"e">>), Name(<<"g">>)}

ArgsInit ==
    /\ MainInit /\ family = "base"
    /\ CtxInit
    /\ NamesIdle
    /\ MachineIdle
    /\ macro_call \in [namespace : {<<>>, <<Id("m")>>}, func : Callees,
                       args : ArgLists, keywords : KeywordLists]
    /\ passed = NotPassed

\* name, namespace = self._resolve_name(node.func)
Callee == resolve_name(macro_call.namespace, macro_call.func)

\* Context.resolve_function(node, assembler) for the call: the extension is
\* looked up and called inside `with self.namespace(namespace)`
resolve_function ==
    /\ macro_call # NoMacroCall
    /\ passed = NotPassed
    /\ LET r == Callee
           ak == call_to_args_kwargs(r.namespace, macro_call)
       IN  passed' =
             IF r.exc # "none" THEN [NotPassed EXCEPT !.exc = r.exc]
             ELSE IF r.name \notin Extensions(r.namespace)
                  THEN IF r.name \in DOMAIN functions_of(r.namespace)
                       THEN [NotPassed EXCEPT !.exc = "function"]
                       ELSE [NotPassed EXCEPT !.exc = "NameError"]
             ELSE IF ak.exc # "none" THEN [NotPassed EXCEPT !.exc = ak.exc]
             ELSE [called |-> TRUE, exc |-> "none", args |-> ak.args, kwargs |-> ak.kwargs]
    /\ UNCHANGED <<mvars, cvars, xvars, macro_call>>

\* the evaluation of the arguments of one extension call
SpecArgs == ArgsInit /\ [][resolve_function]_vars

\* the names of the Register values inside a value
RECURSIVE RegistersIn(_)
RegistersIn(val) ==
    IF val.t = "Register" THEN {val.s}
    ELSE UNION {RegistersIn(val.items[i]) : i \in DOMAIN val.items}

\* the names of the Register values the extension was called with
RegistersPassed ==
    UNION {RegistersIn(passed.args[i]) : i \in DOMAIN passed.args}
    \cup UNION {RegistersIn(passed.kwargs[i]) : i \in DOMAIN passed.kwargs}

\* the bare one-character names among the positional arguments that name
\* none of the eight registers
OtherBareNames ==
    {i \in DOMAIN macro_call.args :
        /\ macro_call.args[i].t = "Name"
        /\ Len(macro_call.args[i].id) = 1
        /\ macro_call.args[i].id \notin Range(REGISTERS)}

\* C22: every Register value the argument evaluator passes to a macro
\* callback names one of the eight physical registers A, B, C, X, Y, Z, I, J;
\* a bare one-character name that is none of the eight is resolved as a
\* constant (or rejected as undefined, in which case nothing is passed)
C22_PhysicalRegisters ==
    passed.called =>
        /\ RegistersPassed \subseteq Range(REGISTERS)
        /\ \A i \in OtherBareNames :
              passed.args[i] = get_constant(Callee.namespace, macro_call.args[i].id).val

\* what the evaluator does guarantee: a Register has a one-character name
\* without a lower-case letter
RegistersAreOneCharacter ==
    \A name \in RegistersPassed : Len(name) = 1 /\ name[1] \notin Range(LowerCase)

\* the callback got a Register of a name that is not a register of the machine
C22_OtherRegisterPassed ==
    /\ passed.called
    /\ <<"Q">> \in RegistersPassed

=============================================================================
